---- MODULE Spec2Model ----
(***************************************************************************)
(* The metrics-logging coordinator of pytorch_lightning                    *)
(* (trainer/connectors/logger_connector.py): LoggerStages, HookResults,    *)
(* EpochLoopResult, BatchSplitIdxManager and LoggerConnector.              *)
(*                                                                         *)
(* Python values are modelled as follows.                                  *)
(*   str    a sequence of one-character strings ("test" is                 *)
(*          <<"t","e","s","t">>), so that substring tests, splitting and   *)
(*          sorting are computed and not assumed;                          *)
(*   dict   a function from keys (str) to values; {} is <<>>;              *)
(*   metric value   [kind |-> "scalar" | "tensor", val |-> Int]: a tensor  *)
(*          and the Python number its .item() gives are different values;  *)
(*   None   the integer None (for an integer) or an empty sequence (for an *)
(*          optional object), as stated where used;                        *)
(*   raise  an operation that raises leaves the exception's name in the    *)
(*          variable raised and keeps every assignment made before the     *)
(*          raising statement.                                             *)
(***************************************************************************)
EXTENDS Integers, Sequences, FiniteSets, TLC

VARIABLES
    callback_metrics,      \* LoggerConnector.callback_metrics
    logged_metrics,        \* LoggerConnector.logged_metrics
    progress_bar_metrics,  \* LoggerConnector.progress_bar_metrics
    eval_loop_results,     \* LoggerConnector.eval_loop_results
    _current_stage,        \* LoggerConnector._current_stage
    _cached_results,       \* LoggerConnector._cached_results: stage -> EpochLoopResult
    _split_idx_manager,    \* LoggerConnector._split_idx_manager: stage -> BatchSplitIdxManager
    trainer,               \* the fields of the trainer the coordinator reads or writes
    logger_calls,          \* the calls the logging backend received during the last operation
    op,                    \* the last operation called on the coordinator
    arg,                   \* what that operation was called with
    ret,                   \* what it returned
    raised,                \* the exception it raised, "none" if it returned
    prev_get,              \* <<n>> if the operation before the last one was a
                           \* _get_evaluate_epoch_results that returned a list of n
                           \* mappings, else <<>>
    with_stack,            \* the stages of the split regions the caller is inside,
                           \* innermost last
    hook_results           \* a HookResults object of its own, <<>> before it is made

vars == <<callback_metrics, logged_metrics, progress_bar_metrics, eval_loop_results,
          _current_stage, _cached_results, _split_idx_manager, trainer, logger_calls,
          op, arg, ret, raised, prev_get, with_stack, hook_results>>

metric_vars == <<callback_metrics, logged_metrics, progress_bar_metrics, eval_loop_results>>

cache_vars == <<_current_stage, _cached_results, _split_idx_manager>>

(***************************************************************************)
(* Bounds of the model.                                                    *)
(***************************************************************************)
\* longest flag string, beyond the named ones, handed to _determine_stage
MaxFlagLen == 2
\* most pieces a hook name is made of
MaxPieces == 3
\* most results appended to one HookResults
MaxAppends == 3
\* deepest nesting of split regions
MaxNesting == 2
\* most mappings eval_loop_results holds before it is drained
MaxEvalLoopResults == 2
\* largest current_epoch and global_step of the trainer
MaxEpoch == 1

\* most results one hook caches for one dataloader in an epoch
MaxCached == 2
\* steps of the training loop in an epoch
StepsPerEpoch == 2

None == -1

(***************************************************************************)
(* Python str.                                                             *)
(***************************************************************************)
\* the characters in use, in code-point order
Alphabet == <<"/", "0", "1", "2", "3", "4", "5", "6", "7", "8", "9", "F", "T", "_",
              "a", "b", "c", "d", "e", "g", "h", "i", "k", "l", "n", "o", "p", "r", "s",
              "t", "u", "v", "x", "y">>

Ord(c) == CHOOSE i \in 1..Len(Alphabet) : Alphabet[i] = c

RECURSIVE StrLess(_, _)
StrLess(s, t) ==
    IF s = <<>> THEN t # <<>>
    ELSE IF t = <<>> THEN FALSE
    ELSE IF Head(s) = Head(t) THEN StrLess(Tail(s), Tail(t))
    ELSE Ord(Head(s)) < Ord(Head(t))

\* sorted(list) of distinct strings
RECURSIVE sorted(_)
sorted(S) ==
    IF S = {} THEN <<>>
    ELSE LET m == CHOOSE x \in S : \A y \in S \ {x} : StrLess(x, y)
         IN  <<m>> \o sorted(S \ {m})

\* p in s
IsSubstring(p, s) ==
    \E i \in 0..(Len(s) - Len(p)) : SubSeq(s, i + 1, i + Len(p)) = p

Range(f) == {f[i] : i \in DOMAIN f}

SeqsUpTo(S, n) == UNION {[1..k -> S] : k \in 0..n}

S_train == <<"t", "r", "a", "i", "n">>
S_validation == <<"v", "a", "l", "i", "d", "a", "t", "i", "o", "n">>
S_test == <<"t", "e", "s", "t">>
S_all == <<"a", "l", "l">>
S_val == <<"v", "a", "l">>
S_0 == <<"0">>
S_1 == <<"1">>
S_True == <<"T", "r", "u", "e">>
S_False == <<"F", "a", "l", "s", "e">>

(***************************************************************************)
(* Python dict.                                                            *)
(***************************************************************************)
EmptyDict == <<>>

\* d.update(m), {**d, **m}
Update(d, m) ==
    [k \in (DOMAIN d) \cup (DOMAIN m) |-> IF k \in DOMAIN m THEN m[k] ELSE d[k]]

\* len(d)
len(d) == Cardinality(DOMAIN d)

\* d without key k (del d[k], d.pop(k) of a key that is present)
Without(d, k) == [x \in (DOMAIN d) \ {k} |-> d[x]]

Scalar(n) == [kind |-> "scalar", val |-> n]
Tensor(n) == [kind |-> "tensor", val |-> n]

\* v.item() of a tensor; a Python number is left alone
item(v) == IF v.kind = "tensor" THEN Scalar(v.val) ELSE v

(***************************************************************************)
(* LoggerStages and stage resolution.                                      *)
(***************************************************************************)
LoggerStages == {S_train, S_validation, S_test, S_all}

\* LoggerConnector.__stages
__stages == sorted(LoggerStages)

\* self.__stages[1:]
StagesButFirst == Tail(__stages)

\* LoggerConnector.__lookup_stages
__lookup_stages == [k \in {S_0, S_1, S_True, S_False} |->
                    IF k \in {S_0, S_True} THEN S_test ELSE S_val]

\* str(x) of a bool, an int in 0..9 or a str
str(x) ==
    CASE x.type = "bool" -> IF x.b THEN S_True ELSE S_False
      [] x.type = "int" -> <<Alphabet[x.n + 2]>>
      [] OTHER -> x.s

PyBool(b) == [type |-> "bool", b |-> b, n |-> 0, s |-> <<>>]
PyInt(n) == [type |-> "int", b |-> FALSE, n |-> n, s |-> <<>>]
PyStr(s) == [type |-> "str", b |-> FALSE, n |-> 0, s |-> s]

\* _determine_stage without its final raise: the input is handed back as the stage
_determine_stage_no_raise(stage_or_testing) ==
    LET s == str(stage_or_testing)
    IN  IF s \in DOMAIN __lookup_stages
        THEN [raised |-> "none", stage |-> __lookup_stages[s]]
        ELSE [raised |-> "none", stage |-> s]

\* _determine_stage: [raised, stage]; raised is "none" when a stage is returned
_determine_stage(stage_or_testing) ==
    LET s == str(stage_or_testing)
        stages == StagesButFirst
    IN  IF s \in Range(stages)
        THEN [raised |-> "none", stage |-> s]
        ELSE IF s \in DOMAIN __lookup_stages
        THEN [raised |-> "none", stage |-> __lookup_stages[s]]
        ELSE [raised |-> "MisconfigurationException", stage |-> <<>>]

\* _determine_stage_from_hook_name comparing the hook name with the stage names
_determine_stage_from_hook_name_exact(hook_name) ==
    IF S_train = hook_name THEN S_train
    ELSE IF S_validation = hook_name THEN S_validation
    ELSE IF S_test = hook_name THEN S_test
    ELSE S_all

\* _determine_stage_from_hook_name, for a hook name that is given (lines 144-151)
_determine_stage_from_hook_name(hook_name) ==
    IF IsSubstring(S_train, hook_name) THEN S_train
    ELSE IF IsSubstring(S_validation, hook_name) THEN S_validation
    ELSE IF IsSubstring(S_test, hook_name) THEN S_test
    ELSE S_all

(***************************************************************************)
(* Metric keys and the mappings the model's inputs are drawn from.         *)
(***************************************************************************)
K_a == <<"a">>
K_b == <<"b">>
K_step == <<"s", "t", "e", "p">>
K_epoch == <<"e", "p", "o", "c", "h">>
K_gpu == <<"g", "p", "u">>
K_val_loss == <<"v", "a", "l", "_", "l", "o", "s", "s">>
K_checkpoint_on == <<"c", "h", "e", "c", "k", "p", "o", "i", "n", "t", "_", "o", "n">>
K_early_stop_on == <<"e", "a", "r", "l", "y", "_", "s", "t", "o", "p", "_", "o", "n">>
K_debug_epoch == <<"d", "e", "b", "u", "g", "_", "e", "p", "o", "c", "h">>
K_loss == <<"l", "o", "s", "s">>
K_extra == <<"e", "x", "t", "r", "a">>
S_dataloader_idx == <<"/", "d", "a", "t", "a", "l", "o", "a", "d", "e", "r", "_", "i", "d", "x", "_">>
K_acc_dl0 == <<"a", "c", "c">> \o S_dataloader_idx \o <<"0">>
K_acc_dl1 == <<"a", "c", "c">> \o S_dataloader_idx \o <<"1">>

\* names that hold "/dataloader_idx_" but do not end with it and a number
K_acc_dl0_top == K_acc_dl0 \o <<"_", "t", "o", "p">>
K_acc_dl0_top_1 == K_acc_dl0 \o <<"/", "t", "o", "p", "_", "1">>

\* {k: v} and {k1: v1, k2: v2}
D1(k, v) == [x \in {k} |-> v]
D2(k1, v1, k2, v2) == Update(D1(k1, v1), D1(k2, v2))

(***************************************************************************)
(* log_metrics and add_progress_bar_metrics.                               *)
(***************************************************************************)
\* trainer.metrics_to_scalars: every tensor becomes the number its .item() gives
metrics_to_scalars(metrics) == [k \in DOMAIN metrics |-> item(metrics[k])]

\* memory.get_memory_profile
get_memory_profile == D1(K_gpu, Scalar(1))

AggCall(metrics, step) == [call |-> "agg_and_log_metrics", metrics |-> metrics, step |-> step]
SaveCall == [call |-> "save", metrics |-> EmptyDict, step |-> None]

\* log_metrics calling the logger on every rank
BackendCalls_every_rank(scalar_metrics, step) ==
    IF trainer.logger THEN <<AggCall(scalar_metrics, step), SaveCall>> ELSE <<>>

\* the calls of log_metrics on trainer.logger (lines 239-242)
BackendCalls(scalar_metrics, step) ==
    IF trainer.logger /\ trainer.is_global_zero
    THEN <<AggCall(scalar_metrics, step), SaveCall>> ELSE <<>>

\* log_metrics tracking the logged metrics on global-zero rank only
TrackLogged_primary_only(logged, scalar_metrics) ==
    IF trainer.logger /\ trainer.is_global_zero THEN Update(logged, scalar_metrics) ELSE logged

\* log_metrics keeping the value logged_metrics already has for a key
TrackLogged_keep_first(logged, scalar_metrics) ==
    IF trainer.logger THEN Update(scalar_metrics, logged) ELSE logged

\* the tracking of the logged metrics (lines 239, 245)
TrackLogged(logged, scalar_metrics) ==
    IF trainer.logger THEN Update(logged, scalar_metrics) ELSE logged

\* log_metrics taking the step from the 'step' key even when a step is given
log_metrics_step_key_first(st, metrics, grad_norm_dic, step, env) ==
    LET m1 == IF env.on_gpu /\ env.log_gpu_memory
              THEN Update(metrics, get_memory_profile) ELSE metrics
        m2 == Update(m1, grad_norm_dic)
        all_scalars == metrics_to_scalars(m2)
        pop_step == K_step \in DOMAIN all_scalars
        scalar_metrics ==
            IF pop_step THEN Without(all_scalars, K_step)
            ELSE IF step = None
            THEN Update(all_scalars, D1(K_epoch, Scalar(env.current_epoch)))
            ELSE all_scalars
        the_step ==
            IF pop_step THEN all_scalars[K_step].val
            ELSE IF step = None THEN env.global_step
            ELSE step
    IN  [metrics |-> m2,
         logged_metrics |-> TrackLogged(st.logged_metrics, scalar_metrics),
         logger_calls |-> st.logger_calls \o BackendCalls(scalar_metrics, the_step)]

\* log_metrics(metrics, grad_norm_dic, step) on the state st = [logged_metrics,
\* logger_calls], with env the trainer fields it reads.  Gives the new state and
\* metrics as the call leaves the caller's dict (it is updated in place).
log_metrics(st, metrics, grad_norm_dic, step, env) ==
    LET m1 == IF env.on_gpu /\ env.log_gpu_memory
              THEN Update(metrics, get_memory_profile) ELSE metrics
        m2 == Update(m1, grad_norm_dic)
        all_scalars == metrics_to_scalars(m2)
        pop_step == K_step \in DOMAIN all_scalars /\ step = None
        scalar_metrics ==
            IF pop_step THEN Without(all_scalars, K_step)
            ELSE IF step = None
            THEN Update(all_scalars, D1(K_epoch, Scalar(env.current_epoch)))
            ELSE all_scalars
        the_step ==
            IF pop_step THEN all_scalars[K_step].val
            ELSE IF step = None THEN env.global_step
            ELSE step
    IN  [metrics |-> m2,
         logged_metrics |-> TrackLogged(st.logged_metrics, scalar_metrics),
         logger_calls |-> st.logger_calls \o BackendCalls(scalar_metrics, the_step)]

\* add_progress_bar_metrics: progress_bar_metrics after the call
add_progress_bar_metrics(pbar, metrics) ==
    Update(pbar, [k \in DOMAIN metrics |-> item(metrics[k])])

(***************************************************************************)
(* Results handed over by the model and the loops.                         *)
(*   type "EvalResult"/"Result": a structured result with its tagged       *)
(*        sub-maps; has_extra says whether it carries the key 'extra';     *)
(*   type "dict": a legacy mapping {..., 'log': {...}, 'progress_bar':     *)
(*        {...}}: epoch_log_metrics holds its 'log', epoch_pbar_metrics    *)
(*        its 'progress_bar', callback_metrics its other entries;          *)
(*   type "tensor": a bare scalar tensor, in value;                        *)
(*   type "None": None.                                                    *)
(* n_keys is len(result), the number of entries of a structured result     *)
(* (its 'meta' entry included).                                            *)
(***************************************************************************)
Res(type, log, pbar, cb, forked) ==
    [type |-> type, epoch_log_metrics |-> log, epoch_pbar_metrics |-> pbar,
     callback_metrics |-> cb, forked_metrics |-> forked, value |-> Tensor(0),
     has_extra |-> FALSE, extra |-> EmptyDict, minimize |-> Tensor(0), n_keys |-> 1]

TensorRes(v) ==
    [Res("tensor", EmptyDict, EmptyDict, EmptyDict, EmptyDict) EXCEPT !.value = v]

EmptyResult == Res("Result", EmptyDict, EmptyDict, EmptyDict, EmptyDict)

IsResult(r) == r.type \in {"EvalResult", "Result"}

\* Result.get_epoch_log_metrics, get_epoch_pbar_metrics, get_forked_metrics
get_epoch_log_metrics(r) == r.epoch_log_metrics
get_epoch_pbar_metrics(r) == r.epoch_pbar_metrics
get_forked_metrics(r) == r.forked_metrics

\* trainer.process_dict_result: [progress_bar, log, callback]
process_dict_result(r) ==
    IF r.type = "dict"
    THEN [prog_bar_metrics |-> r.epoch_pbar_metrics, log_metrics |-> r.epoch_log_metrics,
          callback_metrics |-> r.callback_metrics]
    ELSE [prog_bar_metrics |-> EmptyDict, log_metrics |-> EmptyDict,
          callback_metrics |-> EmptyDict]

\* flatten_dict of a legacy mapping: the entries of the nested mappings join the
\* top-level ones
flatten_dict(r) ==
    Update(Update(r.callback_metrics, r.epoch_log_metrics), r.epoch_pbar_metrics)

\* the mean of the values of key k over the mappings ds
RECURSIVE SumVal(_, _)
SumVal(ds, k) == IF ds = <<>> THEN 0 ELSE ds[1][k].val + SumVal(Tail(ds), k)

MeanDict(ds) ==
    [k \in DOMAIN ds[1] |-> Tensor(SumVal(ds, k) \div Len(ds))]

\* Result.reduce_on_epoch_end of a non-empty list of results with the same keys
reduce_on_epoch_end(rs) ==
    [rs[1] EXCEPT
        !.epoch_log_metrics = MeanDict([i \in DOMAIN rs |-> rs[i].epoch_log_metrics]),
        !.epoch_pbar_metrics = MeanDict([i \in DOMAIN rs |-> rs[i].epoch_pbar_metrics]),
        !.forked_metrics = MeanDict([i \in DOMAIN rs |-> rs[i].forked_metrics])]

(***************************************************************************)
(* The evaluation epoch end: before_on_evaluation_epoch_end.               *)
(* The operators work on st = [callback_metrics, logged_metrics,           *)
(* progress_bar_metrics, eval_loop_results, logger_calls, raised].         *)
(***************************************************************************)
\* key.split("_")[-1]
RECURSIVE LastSegment(_)
LastSegment(key) ==
    IF key = <<>> THEN <<>>
    ELSE IF key[Len(key)] = "_" THEN <<>>
    ELSE LastSegment(SubSeq(key, 1, Len(key) - 1)) \o <<key[Len(key)]>>

Digits == <<"0", "1", "2", "3", "4", "5", "6", "7", "8", "9">>

IsDigits(seg) == seg # <<>> /\ \A i \in DOMAIN seg : seg[i] \in Range(Digits)

\* int(seg) of a string of digits
RECURSIVE int(_)
int(seg) ==
    IF seg = <<>> THEN 0
    ELSE 10 * int(SubSeq(seg, 1, Len(seg) - 1))
         + (CHOOSE d \in 0..9 : Digits[d + 1] = seg[Len(seg)])

\* the keys add_to_eval_loop_results deletes from the copy (lines 357-362)
KeysOfOtherLoaders(callback_metrics_copy, dl_idx) ==
    {key \in DOMAIN callback_metrics_copy :
        IsSubstring(S_dataloader_idx, key) /\ int(LastSegment(key)) # dl_idx}

\* add_to_eval_loop_results deleting from self.callback_metrics, not from its copy
add_to_eval_loop_results_no_copy(st, dl_idx) ==
    LET gone == KeysOfOtherLoaders(st.callback_metrics, dl_idx)
        kept == [k \in (DOMAIN st.callback_metrics) \ gone |-> st.callback_metrics[k]]
    IN  [st EXCEPT !.callback_metrics = kept,
                   !.eval_loop_results = Append(st.eval_loop_results, kept)]

\* add_to_eval_loop_results
add_to_eval_loop_results(st, dl_idx) ==
    LET callback_metrics_copy == st.callback_metrics
        bad == {key \in DOMAIN callback_metrics_copy :
                   IsSubstring(S_dataloader_idx, key) /\ ~IsDigits(LastSegment(key))}
        gone == KeysOfOtherLoaders(callback_metrics_copy, dl_idx)
    IN  IF bad # {} THEN [st EXCEPT !.raised = "ValueError"]
        ELSE [st EXCEPT !.eval_loop_results =
                  Append(st.eval_loop_results,
                         [k \in (DOMAIN callback_metrics_copy) \ gone |->
                              callback_metrics_copy[k]])]

\* the legacy branch of _track_callback_metrics for one result (lines 387-397)
TrackLegacyResult(cm, eval_result) ==
    LET flat0 == IF eval_result.type = "tensor"
                 THEN D1(K_val_loss, eval_result.value)
                 ELSE flatten_dict(eval_result)
        flat == IF K_val_loss \in DOMAIN flat0
                THEN Update(flat0, D2(K_checkpoint_on, flat0[K_val_loss],
                                      K_early_stop_on, flat0[K_val_loss]))
                ELSE flat0
    IN  Update(cm, flat)

RECURSIVE TrackEach(_, _, _)
TrackEach(cm, eval_results, using_eval_result) ==
    IF eval_results = <<>> THEN cm
    ELSE TrackEach(IF using_eval_result
                   THEN Update(cm, Head(eval_results).callback_metrics)
                   ELSE TrackLegacyResult(cm, Head(eval_results)),
                   Tail(eval_results), using_eval_result)

\* _track_callback_metrics of a list of results
_track_callback_metrics(st, eval_results, using_eval_result) ==
    IF Len(eval_results) > 0 /\ ~IsResult(eval_results[1]) THEN st
    ELSE [st EXCEPT !.callback_metrics =
              TrackEach(st.callback_metrics, eval_results, using_eval_result)]

\* one round of that loop without the continue of lines 329-330: a dataloader with
\* no step metrics has its snapshot appended too
TrackLoader_no_skip(st, dl_idx, dl_metrics) ==
    IF st.raised # "none" THEN st
    ELSE IF Len(dl_metrics) = 0 THEN add_to_eval_loop_results(st, dl_idx)
    ELSE LET reduced_epoch_metrics == reduce_on_epoch_end(dl_metrics)
             logger_metrics == get_epoch_log_metrics(reduced_epoch_metrics)
             pbar_metrics == get_epoch_pbar_metrics(reduced_epoch_metrics)
             forked_metrics == get_forked_metrics(reduced_epoch_metrics)
         IN  add_to_eval_loop_results(
                 [st EXCEPT
                    !.logged_metrics = Update(@, logger_metrics),
                    !.progress_bar_metrics = add_progress_bar_metrics(@, pbar_metrics),
                    !.callback_metrics =
                        Update(Update(Update(@, logger_metrics), pbar_metrics),
                               forked_metrics)],
                 dl_idx)

\* one round of the loop of _track_callback_metrics_1_0 (lines 328-353)
TrackLoader(st, dl_idx, dl_metrics) ==
    IF Len(dl_metrics) = 0 \/ st.raised # "none" THEN st
    ELSE LET reduced_epoch_metrics == reduce_on_epoch_end(dl_metrics)
             logger_metrics == get_epoch_log_metrics(reduced_epoch_metrics)
             pbar_metrics == get_epoch_pbar_metrics(reduced_epoch_metrics)
             forked_metrics == get_forked_metrics(reduced_epoch_metrics)
         IN  add_to_eval_loop_results(
                 [st EXCEPT
                    !.logged_metrics = Update(@, logger_metrics),
                    !.progress_bar_metrics = add_progress_bar_metrics(@, pbar_metrics),
                    !.callback_metrics =
                        Update(Update(Update(@, logger_metrics), pbar_metrics),
                               forked_metrics)],
                 dl_idx)

RECURSIVE TrackLoaders(_, _, _)
TrackLoaders(st, step_metrics, dl_idx) ==
    IF dl_idx >= Len(step_metrics) THEN st
    ELSE TrackLoaders(TrackLoader(st, dl_idx, step_metrics[dl_idx + 1]),
                      step_metrics, dl_idx + 1)

\* whether _track_callback_metrics_1_0 and the legacy processing return early,
\* without the check of trainer.running_sanity_check
ReturnsEarly_unguarded(st, running_sanity_check) == st.raised # "none"

\* whether _track_callback_metrics_1_0 and the legacy processing return early
\* (lines 301-302, 412-413)
ReturnsEarly(st, running_sanity_check) == running_sanity_check \/ st.raised # "none"

\* _track_callback_metrics_1_0(logs, metrics_to_log, reduce_on_epoch=True); the list
\* metrics_to_log it appends to is dropped by its caller
_track_callback_metrics_1_0(st, logs, step_metrics, running_sanity_check) ==
    IF ReturnsEarly(st, running_sanity_check) THEN st
    ELSE LET epoch_logger_metrics == get_epoch_log_metrics(logs)
             epoch_pbar_metrics == get_epoch_pbar_metrics(logs)
         IN  TrackLoaders(
                 [st EXCEPT
                    !.logged_metrics = Update(@, epoch_logger_metrics),
                    !.progress_bar_metrics = add_progress_bar_metrics(@, epoch_pbar_metrics),
                    !.callback_metrics =
                        Update(Update(@, epoch_logger_metrics), epoch_pbar_metrics)],
                 step_metrics, 0)

\* one round of the loop of __process_eval_epoch_end_results_and_log_legacy
ProcessLegacyResult(st, result, test_mode, env) ==
    LET processed == process_dict_result(result)
        prog_bar_metrics == IF result.type = "EvalResult" THEN result.epoch_pbar_metrics
                            ELSE processed.prog_bar_metrics
        log_metrics0 == IF result.type = "EvalResult" THEN result.epoch_log_metrics
                        ELSE processed.log_metrics
        cb_metrics == IF result.type = "EvalResult"
                      THEN (IF test_mode THEN EmptyDict ELSE result.callback_metrics)
                      ELSE processed.callback_metrics
        dataloader_result_metrics ==
            Update(Update(prog_bar_metrics, log_metrics0), cb_metrics)
        logged == IF len(log_metrics0) > 0
                  THEN log_metrics(st, log_metrics0, EmptyDict, None, env)
                  ELSE [metrics |-> log_metrics0, logged_metrics |-> st.logged_metrics,
                        logger_calls |-> st.logger_calls]
    IN  [st EXCEPT
            !.progress_bar_metrics = add_progress_bar_metrics(@, prog_bar_metrics),
            !.logged_metrics = logged.logged_metrics,
            !.logger_calls = logged.logger_calls,
            !.callback_metrics =
                Update(Update(Update(@, cb_metrics), logged.metrics), prog_bar_metrics),
            !.eval_loop_results =
                IF len(dataloader_result_metrics) > 0
                THEN Append(@, dataloader_result_metrics) ELSE @]

RECURSIVE ProcessLegacyResults(_, _, _, _)
ProcessLegacyResults(st, eval_results, test_mode, env) ==
    IF eval_results = <<>> THEN st
    ELSE ProcessLegacyResults(ProcessLegacyResult(st, Head(eval_results), test_mode, env),
                              Tail(eval_results), test_mode, env)

\* __process_eval_epoch_end_results_and_log_legacy
process_eval_epoch_end_results_and_log_legacy(st, eval_results, test_mode, running_sanity_check, env) ==
    IF ReturnsEarly(st, running_sanity_check) THEN st
    ELSE ProcessLegacyResults(st, eval_results, test_mode, env)

\* before_on_evaluation_epoch_end
before_on_evaluation_epoch_end(st, deprecated_eval_results, epoch_logs, using_eval_result, test_mode, step_metrics, running_sanity_check, env) ==
    process_eval_epoch_end_results_and_log_legacy(
        _track_callback_metrics_1_0(
            _track_callback_metrics(st, deprecated_eval_results, using_eval_result),
            epoch_logs, step_metrics, running_sanity_check),
        deprecated_eval_results, test_mode, running_sanity_check, env)

\* dict(ChainMap(*maps)) looking a key up in the last mapping that has it
RECURSIVE ChainMapDict_last_wins(_)
ChainMapDict_last_wins(maps) ==
    IF maps = <<>> THEN EmptyDict
    ELSE Update(maps[1], ChainMapDict_last_wins(Tail(maps)))

\* dict(ChainMap(*maps)): a key is looked up in the mappings in order, and the first
\* mapping that has it gives the value
RECURSIVE ChainMapDict(_)
ChainMapDict(maps) ==
    IF maps = <<>> THEN EmptyDict
    ELSE Update(ChainMapDict(Tail(maps)), maps[1])

\* the non-test branch of _get_evaluate_epoch_results handing out the list it then
\* clears in place
NonTestResults_cleared(results) == <<>>

\* the non-test branch of _get_evaluate_epoch_results (line 282): the list itself is
\* returned, and self.eval_loop_results is rebound to a new list
NonTestResults(results) == results

\* _get_evaluate_epoch_results: [raised, results, eval_loop_results]
_get_evaluate_epoch_results(cm, elr, debugger_enabled) ==
    IF trainer.testing
    THEN IF debugger_enabled /\ K_debug_epoch \notin DOMAIN cm
         THEN [raised |-> "KeyError", results |-> <<>>, eval_loop_results |-> elr]
         ELSE LET callback_metrics_copy ==
                      IF debugger_enabled THEN Without(cm, K_debug_epoch) ELSE cm
              IN  [raised |-> "none",
                   results |-> <<ChainMapDict(Append(elr, callback_metrics_copy))>>,
                   eval_loop_results |-> <<>>]
    ELSE [raised |-> "none", results |-> NonTestResults(elr), eval_loop_results |-> <<>>]

(***************************************************************************)
(* The training step end and the training epoch end.                       *)
(***************************************************************************)
\* an optional dict: None or the dict d
Opt(b, d) == [is_none |-> b, d |-> d]

\* log_train_step_metrics with the cadence counted from global_step
log_train_step_metrics_no_offset(st, batch_output, cadence, env) ==
    LET should_log_metrics ==
            env.global_step % cadence.log_every_n_steps = 0 \/ cadence.should_stop
        metrics == IF batch_output.batch_log_metrics.is_none THEN EmptyDict
                   ELSE batch_output.batch_log_metrics.d
        grad_norm_dic == IF batch_output.grad_norm_dic.is_none THEN EmptyDict
                         ELSE batch_output.grad_norm_dic.d
        logged == log_metrics(st, metrics, grad_norm_dic, None, env)
    IN  IF (should_log_metrics \/ cadence.fast_dev_run)
           /\ (len(metrics) > 0 \/ len(grad_norm_dic) > 0)
        THEN [st |-> [st EXCEPT !.logged_metrics = logged.logged_metrics,
                                !.logger_calls = logged.logger_calls,
                                !.callback_metrics = Update(@, logged.metrics)],
              log_metrics_calls |-> <<[metrics |-> metrics, grad_norm_dic |-> grad_norm_dic]>>,
              batch_log_metrics |->
                  IF batch_output.batch_log_metrics.is_none
                  THEN batch_output.batch_log_metrics ELSE Opt(FALSE, logged.metrics)]
        ELSE [st |-> st, log_metrics_calls |-> <<>>,
              batch_log_metrics |-> batch_output.batch_log_metrics]

\* log_train_step_metrics: st after the call, the calls of log_metrics it made and
\* batch_output.batch_log_metrics as the call leaves it (log_metrics updates the
\* dict it is given).  batch_log_metrics and grad_norm_dic are [is_none, d]
log_train_step_metrics(st, batch_output, cadence, env) ==
    LET should_log_metrics ==
            (env.global_step + 1) % cadence.log_every_n_steps = 0 \/ cadence.should_stop
        metrics == IF batch_output.batch_log_metrics.is_none THEN EmptyDict
                   ELSE batch_output.batch_log_metrics.d
        grad_norm_dic == IF batch_output.grad_norm_dic.is_none THEN EmptyDict
                         ELSE batch_output.grad_norm_dic.d
        logged == log_metrics(st, metrics, grad_norm_dic, None, env)
    IN  IF (should_log_metrics \/ cadence.fast_dev_run)
           /\ (len(metrics) > 0 \/ len(grad_norm_dic) > 0)
        THEN [st |-> [st EXCEPT !.logged_metrics = logged.logged_metrics,
                                !.logger_calls = logged.logger_calls,
                                !.callback_metrics = Update(@, logged.metrics)],
              log_metrics_calls |-> <<[metrics |-> metrics, grad_norm_dic |-> grad_norm_dic]>>,
              batch_log_metrics |->
                  IF batch_output.batch_log_metrics.is_none
                  THEN batch_output.batch_log_metrics ELSE Opt(FALSE, logged.metrics)]
        ELSE [st |-> st, log_metrics_calls |-> <<>>,
              batch_log_metrics |-> batch_output.batch_log_metrics]

\* Result.reduce_across_time of the results of the sub-steps of one training step
reduce_across_time(tbptt_outs) == reduce_on_epoch_end(tbptt_outs)

\* the results of the steps of one optimizer, reduced across time, that hold more
\* than their 'meta' entry (lines 613-618)
RECURSIVE TimeReduced(_)
TimeReduced(opt_outputs) ==
    IF opt_outputs = <<>> THEN <<>>
    ELSE LET tbptt_outs == reduce_across_time(Head(opt_outputs))
         IN  (IF tbptt_outs.n_keys > 1 THEN <<tbptt_outs>> ELSE <<>>)
             \o TimeReduced(Tail(opt_outputs))

\* __auto_reduce_results_on_epoch_end: [epoch_log_metrics, epoch_progress_bar_metrics],
\* for an epoch output whose steps each hold a result
RECURSIVE auto_reduce_results_on_epoch_end(_)
auto_reduce_results_on_epoch_end(epoch_output) ==
    IF epoch_output = <<>>
    THEN [epoch_log_metrics |-> EmptyDict, epoch_progress_bar_metrics |-> EmptyDict]
    ELSE LET n == Len(epoch_output)
             before == auto_reduce_results_on_epoch_end(SubSeq(epoch_output, 1, n - 1))
             time_reduced_outputs == TimeReduced(epoch_output[n])
             opt_outputs == reduce_on_epoch_end(time_reduced_outputs)
         IN  IF Len(time_reduced_outputs) = 0 THEN before
             ELSE [epoch_log_metrics |->
                       Update(before.epoch_log_metrics, opt_outputs.epoch_log_metrics),
                   epoch_progress_bar_metrics |->
                       Update(before.epoch_progress_bar_metrics,
                              opt_outputs.epoch_pbar_metrics)]

\* the epoch output as __prepare_epoch_end_inputs leaves it: out = x.extra is the
\* result's own mapping, and out['loss'] = x.minimize writes into it
prepare_epoch_end_inputs_leaves(epoch_output) ==
    [o \in DOMAIN epoch_output |->
        [t \in DOMAIN epoch_output[o] |->
            [x \in DOMAIN epoch_output[o][t] |->
                [epoch_output[o][t][x] EXCEPT
                    !.extra = Update(@, D1(K_loss, epoch_output[o][t][x].minimize))]]]]

\* training_epoch_end taking whatever the hook returns
training_epoch_end_any_return(model, epoch_output, num_optimizers) ==
    IF ~model.overridden
    THEN [raised |-> "none", result |-> EmptyResult, epoch_output |-> epoch_output]
    ELSE [raised |-> "none", result |-> model.hook_logged,
          epoch_output |-> prepare_epoch_end_inputs_leaves(epoch_output)]

\* training_epoch_end: [raised, result, epoch_output]; epoch_output is the caller's
\* epoch output as the call leaves it
training_epoch_end(model, epoch_output, num_optimizers) ==
    IF ~model.overridden
    THEN [raised |-> "none", result |-> EmptyResult, epoch_output |-> epoch_output]
    ELSE IF model.hook_return.type # "None"
    THEN [raised |-> "MisconfigurationException", result |-> EmptyResult,
          epoch_output |-> prepare_epoch_end_inputs_leaves(epoch_output)]
    ELSE [raised |-> "none", result |-> model.hook_logged,
          epoch_output |-> prepare_epoch_end_inputs_leaves(epoch_output)]

\* __run_legacy_training_epoch_end: [epoch_log_metrics, epoch_progress_bar_metrics,
\* epoch_callback_metrics]
run_legacy_training_epoch_end(num_optimizers, epoch_output, model, is_result_obj, epoch_callback_metrics) ==
    IF model.overridden
    THEN IF IsResult(model.hook_return)
         THEN [epoch_log_metrics |-> model.hook_return.epoch_log_metrics,
               epoch_progress_bar_metrics |-> model.hook_return.epoch_pbar_metrics,
               epoch_callback_metrics |-> epoch_callback_metrics]
         ELSE LET _processed_outputs == process_dict_result(model.hook_return)
              IN  [epoch_log_metrics |-> _processed_outputs.log_metrics,
                   epoch_progress_bar_metrics |-> _processed_outputs.prog_bar_metrics,
                   epoch_callback_metrics |-> _processed_outputs.callback_metrics]
    ELSE IF is_result_obj
    THEN LET reduced == auto_reduce_results_on_epoch_end(epoch_output)
         IN  [epoch_log_metrics |-> reduced.epoch_log_metrics,
              epoch_progress_bar_metrics |-> reduced.epoch_progress_bar_metrics,
              epoch_callback_metrics |-> epoch_callback_metrics]
    ELSE [epoch_log_metrics |-> EmptyDict, epoch_progress_bar_metrics |-> EmptyDict,
          epoch_callback_metrics |-> epoch_callback_metrics]

\* whether opt_idx_outputs = epoch_output[0] (line 480) raises IndexError: it is
\* read before the try block of lines 483-489
FirstOptimizerRaises(epoch_output) == Len(epoch_output) = 0

\* the sample object of lines 484-489: <<>> when reading it raises IndexError,
\* which the try block catches
SampleObj(epoch_output) ==
    IF Len(epoch_output) = 0 THEN <<>>
    ELSE IF Len(epoch_output[1]) = 0 THEN <<>>
    ELSE IF Len(epoch_output[1][1]) = 0 THEN <<>>
    ELSE <<epoch_output[1][1][1]>>

\* the tracking of the results at the end of log_train_epoch_end_metrics
\* (lines 525-535)
TrackEpochEnd(st, epoch_log_metrics, epoch_progress_bar_metrics, epoch_callback_metrics, env) ==
    LET logged == IF len(epoch_log_metrics) > 0
                  THEN log_metrics(st, epoch_log_metrics, EmptyDict, None, env)
                  ELSE [metrics |-> EmptyDict, logged_metrics |-> st.logged_metrics,
                        logger_calls |-> st.logger_calls]
    IN  [st EXCEPT
            !.logged_metrics = logged.logged_metrics,
            !.logger_calls = logged.logger_calls,
            !.progress_bar_metrics =
                add_progress_bar_metrics(@, epoch_progress_bar_metrics),
            !.callback_metrics =
                Update(Update(Update(@, logged.metrics), epoch_callback_metrics),
                       epoch_progress_bar_metrics)]

\* log_train_epoch_end_metrics: [st, path, epoch_output]; path is "1.0", "legacy" or,
\* when the call raised before it chose, "none"
log_train_epoch_end_metrics(st, epoch_output, checkpoint_accumulator, early_stopping_accumulator, num_optimizers, model, cached, env) ==
    LET ckpt == IF checkpoint_accumulator.num_values > 0
                THEN D1(K_checkpoint_on, checkpoint_accumulator.mean) ELSE EmptyDict
        epoch_callback_metrics ==
            IF early_stopping_accumulator.num_values > 0
            THEN Update(ckpt, D1(K_early_stop_on, early_stopping_accumulator.mean))
            ELSE ckpt
        sample == SampleObj(epoch_output)
        is_result_obj == sample # <<>> /\ Len(epoch_output) > 0 /\ IsResult(sample[1])
        is_1_0_result == is_result_obj /\ sample[1].has_extra
        hook == training_epoch_end(model, epoch_output, num_optimizers)
        reduced == auto_reduce_results_on_epoch_end(hook.epoch_output)
        legacy == run_legacy_training_epoch_end(num_optimizers, epoch_output, model,
                                                is_result_obj, epoch_callback_metrics)
    IN  IF FirstOptimizerRaises(epoch_output)
        THEN [st |-> [st EXCEPT !.raised = "IndexError"], path |-> "none",
              epoch_output |-> epoch_output]
        ELSE IF is_1_0_result
        THEN IF hook.raised # "none"
             THEN [st |-> [st EXCEPT !.raised = hook.raised], path |-> "1.0",
                   epoch_output |-> hook.epoch_output]
             ELSE [st |-> TrackEpochEnd(
                              st,
                              Update(Update(reduced.epoch_log_metrics,
                                            get_epoch_log_metrics(hook.result)),
                                     cached.epoch_log_metrics),
                              Update(Update(reduced.epoch_progress_bar_metrics,
                                            get_epoch_pbar_metrics(hook.result)),
                                     cached.epoch_pbar_metrics),
                              epoch_callback_metrics, env),
                   path |-> "1.0", epoch_output |-> hook.epoch_output]
        ELSE [st |-> TrackEpochEnd(st, legacy.epoch_log_metrics,
                                   legacy.epoch_progress_bar_metrics,
                                   legacy.epoch_callback_metrics, env),
              path |-> "legacy", epoch_output |-> epoch_output]

(***************************************************************************)
(* HookResults and EpochLoopResult.                                        *)
(***************************************************************************)
\* EpochLoopResult.log_training_step_metrics: st after the call.  The names
\* callback_metrics, batch_log_metrics and batch_callback_metrics are neither locals
\* nor globals of the module, so the first statement that reads one raises NameError:
\* line 87 for a Result, line 94 otherwise, both before the progress bar metrics are
\* tracked (lines 96-106)
log_training_step_metrics(st, training_step_output) ==
    LET using_results_obj == IsResult(training_step_output)
    IN  IF using_results_obj
        THEN [st EXCEPT !.raised = "NameError"]
        ELSE [st EXCEPT !.raised = "NameError"]

\* HookResults.__init__; _internals is a defaultdict(list)
HookResults(current_hook_fx_name) ==
    [_current_hook_fx_name |-> current_hook_fx_name, _internals |-> EmptyDict]

\* HookResults.append putting the result first
append_at_front(self, result, dataloader_idx, split_idx) ==
    LET idx == IF dataloader_idx = None THEN 0 ELSE dataloader_idx
        old == IF idx \in DOMAIN self._internals
               THEN self._internals[idx] ELSE <<>>
    IN  [self EXCEPT !._internals = Update(@, D1(idx, <<result>> \o old))]

\* HookResults.append
append(self, result, dataloader_idx, split_idx) ==
    LET idx == IF dataloader_idx = None THEN 0 ELSE dataloader_idx
        old == IF idx \in DOMAIN self._internals
               THEN self._internals[idx] ELSE <<>>
    IN  [self EXCEPT !._internals = Update(@, D1(idx, Append(old, result)))]

\* EpochLoopResult.cache_result making a new HookResults on every call
cache_result_replacing(epoch_loop_result, current_hook_fx_name, hook_result) ==
    [epoch_loop_result EXCEPT !._internals =
        Update(@, D1(current_hook_fx_name,
                     append(HookResults(current_hook_fx_name), hook_result,
                            epoch_loop_result._dataloader_idx,
                            epoch_loop_result._split_idx)))]

\* EpochLoopResult.cache_result
cache_result(epoch_loop_result, current_hook_fx_name, hook_result) ==
    LET created == IF current_hook_fx_name \notin DOMAIN epoch_loop_result._internals
                   THEN Update(epoch_loop_result._internals,
                               D1(current_hook_fx_name, HookResults(current_hook_fx_name)))
                   ELSE epoch_loop_result._internals
    IN  [epoch_loop_result EXCEPT !._internals =
            Update(created,
                   D1(current_hook_fx_name,
                      append(created[current_hook_fx_name], hook_result,
                             epoch_loop_result._dataloader_idx,
                             epoch_loop_result._split_idx)))]

\* EpochLoopResult.reset keeping the hook caches
reset_keeping(epoch_loop_result) == epoch_loop_result

\* EpochLoopResult.reset
reset(epoch_loop_result) == [epoch_loop_result EXCEPT !._internals = EmptyDict]

(***************************************************************************)
(* The operations of the coordinator as actions.                           *)
(***************************************************************************)
\* the coordinator's metric state as an operation starts
St == [callback_metrics |-> callback_metrics, logged_metrics |-> logged_metrics,
       progress_bar_metrics |-> progress_bar_metrics,
       eval_loop_results |-> eval_loop_results, logger_calls |-> <<>>, raised |-> "none"]

Commit(st) ==
    /\ callback_metrics' = st.callback_metrics
    /\ logged_metrics' = st.logged_metrics
    /\ progress_bar_metrics' = st.progress_bar_metrics
    /\ eval_loop_results' = st.eval_loop_results
    /\ logger_calls' = st.logger_calls

\* the record of the call: its name, what it was given, what it gave back
Called(name, a, r, exc) ==
    /\ op' = name
    /\ arg' = a
    /\ ret' = r
    /\ raised' = exc
    /\ prev_get' = IF op = "_get_evaluate_epoch_results" /\ raised = "none"
                   THEN <<Len(ret)>> ELSE <<>>

\* log_metrics(metrics, grad_norm_dic, step)
LogMetrics(Metrics, GradNorms, Steps, EnvsIn) ==
    \E metrics \in Metrics, grad_norm_dic \in GradNorms, step \in Steps, env \in EnvsIn :
        LET r == log_metrics(St, metrics, grad_norm_dic, step, env)
        IN  /\ Commit([St EXCEPT !.logged_metrics = r.logged_metrics,
                                 !.logger_calls = r.logger_calls])
            /\ Called("log_metrics",
                      [metrics |-> metrics, grad_norm_dic |-> grad_norm_dic, step |-> step,
                       env |-> env, metrics_after |-> r.metrics],
                      <<>>, "none")
            /\ UNCHANGED <<cache_vars, trainer, with_stack, hook_results>>

\* before_on_evaluation_epoch_end, called by the evaluation loop with
\* test_mode = trainer.testing once it has filled evaluation_loop.step_metrics
OnEvaluationEpochEnd(EvalResults, EpochLogs, StepMetrics, Sanity, EnvsIn) ==
    \E eval_in \in EvalResults, epoch_logs \in EpochLogs, step_metrics \in StepMetrics,
       running_sanity_check \in Sanity, env \in EnvsIn :
        LET st == before_on_evaluation_epoch_end(
                      St, eval_in.items, epoch_logs, eval_in.using_eval_result,
                      trainer.testing, step_metrics, running_sanity_check, env)
        IN  /\ Len(st.eval_loop_results) <= MaxEvalLoopResults
            /\ Commit(st)
            /\ Called("before_on_evaluation_epoch_end",
                      [running_sanity_check |-> running_sanity_check,
                       eval_results |-> eval_in.items,
                       using_eval_result |-> eval_in.using_eval_result,
                       step_metrics |-> step_metrics,
                       accumulated |-> Len(eval_loop_results)],
                      <<>>, st.raised)
            /\ UNCHANGED <<cache_vars, trainer, with_stack, hook_results>>

\* _get_evaluate_epoch_results(test_mode)
GetEvaluationEpochResults(Debugger) ==
    \E debugger_enabled \in Debugger :
        LET r == _get_evaluate_epoch_results(callback_metrics, eval_loop_results,
                                             debugger_enabled)
        IN  /\ Commit([St EXCEPT !.eval_loop_results = r.eval_loop_results])
            /\ Called("_get_evaluate_epoch_results",
                      [debugger_enabled |-> debugger_enabled,
                       eval_loop_results |-> eval_loop_results],
                      r.results, r.raised)
            /\ UNCHANGED <<cache_vars, trainer, with_stack, hook_results>>

\* add_to_eval_loop_results(dl_idx)
AddToEvalLoopResults(DlIdxs) ==
    \E dl_idx \in DlIdxs :
        LET st == add_to_eval_loop_results(St, dl_idx)
        IN  /\ Len(st.eval_loop_results) <= MaxEvalLoopResults
            /\ Commit(st)
            /\ Called("add_to_eval_loop_results", [dl_idx |-> dl_idx], <<>>, st.raised)
            /\ UNCHANGED <<cache_vars, trainer, with_stack, hook_results>>

\* log_train_step_metrics(batch_output)
OnStepEnd(Batches, CadencesIn, EnvsIn) ==
    \E batch_output \in Batches, cadence \in CadencesIn, env \in EnvsIn :
        LET r == log_train_step_metrics(St, batch_output, cadence, env)
        IN  /\ Commit(r.st)
            /\ Called("log_train_step_metrics",
                      [batch_output |-> batch_output, cadence |-> cadence, env |-> env],
                      [log_metrics_calls |-> r.log_metrics_calls,
                       batch_log_metrics |-> r.batch_log_metrics],
                      "none")
            /\ UNCHANGED <<cache_vars, trainer, with_stack, hook_results>>

\* _cached_results['train'].log_training_step_metrics(opt_closure_result)
LogTrainingStepMetrics(TrainingStepOutputs) ==
    \E training_step_output \in TrainingStepOutputs :
        LET st == log_training_step_metrics(St, training_step_output)
        IN  /\ Commit(st)
            /\ Called("log_training_step_metrics",
                      [training_step_output |-> training_step_output], <<>>, st.raised)
            /\ UNCHANGED <<cache_vars, trainer, with_stack, hook_results>>

\* log_train_epoch_end_metrics(epoch_output, checkpoint_accumulator,
\* early_stopping_accumulator, num_optimizers)
OnTrainingEpochEnd(EpochOutputsIn, Accumulators, ModelsIn, Cached, EnvsIn) ==
    \E epoch_output \in EpochOutputsIn, accumulators \in Accumulators, model \in ModelsIn,
       cached \in Cached, env \in EnvsIn :
        LET checkpoint_accumulator == accumulators[1]
            early_stopping_accumulator == accumulators[2]
            num_optimizers == IF Len(epoch_output) = 0 THEN 1 ELSE Len(epoch_output)
            r == log_train_epoch_end_metrics(
                     St, epoch_output, checkpoint_accumulator,
                     early_stopping_accumulator, num_optimizers, model, cached, env)
        IN  /\ Commit(r.st)
            /\ Called("log_train_epoch_end_metrics",
                      [epoch_output |-> epoch_output, path |-> r.path, model |-> model,
                       epoch_output_after |-> r.epoch_output,
                       checkpoint_accumulator |-> checkpoint_accumulator,
                       early_stopping_accumulator |-> early_stopping_accumulator],
                      <<>>, r.st.raised)
            /\ UNCHANGED <<cache_vars, trainer, with_stack, hook_results>>

\* model_ref._current_hook_fx_name and model_ref._results captured: capture_logging
CaptureLogging(HookNames, HookResultsIn) ==
    \E current_hook_fx_name \in HookNames, hook_result \in HookResultsIn :
        LET stage == _determine_stage_from_hook_name(current_hook_fx_name)
            after == cache_result(_cached_results[stage], current_hook_fx_name, hook_result)
        IN  /\ Len(after._internals[current_hook_fx_name]._internals[0]) <= MaxCached
            /\ _cached_results' = [_cached_results EXCEPT ![stage] = after]
            /\ Called("capture_logging",
                      [current_hook_fx_name |-> current_hook_fx_name,
                       hook_result |-> hook_result],
                      <<>>, "none")
            /\ UNCHANGED <<metric_vars, logger_calls, _current_stage, _split_idx_manager,
                           trainer, with_stack, hook_results>>

\* EpochLoopResult.reset of the cache of one stage
Reset ==
    \E stage \in DOMAIN _cached_results :
        /\ _cached_results' = [_cached_results EXCEPT ![stage] = reset(@)]
        /\ Called("reset", [stage |-> stage], <<>>, "none")
        /\ UNCHANGED <<metric_vars, logger_calls, _current_stage, _split_idx_manager,
                       trainer, with_stack, hook_results>>

\* _determine_stage_from_hook_name(hook_name)
DetermineStageFromHookName(HookNames) ==
    \E hook_name \in HookNames :
        /\ Called("_determine_stage_from_hook_name", [hook_name |-> hook_name],
                  <<_determine_stage_from_hook_name(hook_name)>>, "none")
        /\ UNCHANGED <<metric_vars, logger_calls, cache_vars, trainer, with_stack, hook_results>>

\* _determine_stage(stage_or_testing)
DetermineStage(Flags) ==
    \E stage_or_testing \in Flags :
        LET r == _determine_stage(stage_or_testing)
        IN  /\ Called("_determine_stage", [stage_or_testing |-> stage_or_testing],
                      IF r.raised = "none" THEN <<r.stage>> ELSE <<>>, r.raised)
            /\ UNCHANGED <<metric_vars, logger_calls, cache_vars, trainer, with_stack, hook_results>>

\* split_idx_manager(stage_or_testing, split_idx); the manager it returns is named
\* by its stage
SplitIdxManager(Flags, SplitIdxs) ==
    \E stage_or_testing \in Flags, split_idx \in SplitIdxs :
        LET r == _determine_stage(stage_or_testing)
            found == r.raised = "none" /\ r.stage \in DOMAIN _split_idx_manager
        IN  /\ _current_stage' = IF r.raised = "none" THEN r.stage ELSE _current_stage
            /\ _split_idx_manager' =
                   IF found
                   THEN [_split_idx_manager EXCEPT ![r.stage].split_idx = <<split_idx>>]
                   ELSE _split_idx_manager
            /\ Called("split_idx_manager",
                      [stage_or_testing |-> stage_or_testing, split_idx |-> split_idx],
                      IF found THEN <<r.stage>> ELSE <<>>,
                      IF r.raised # "none" THEN r.raised
                      ELSE IF found THEN "none" ELSE "KeyError")
            /\ UNCHANGED <<metric_vars, logger_calls, _cached_results, trainer, with_stack, hook_results>>

\* BatchSplitIdxManager.__enter__ setting the split index of every stage
__enter___every_stage(manager, the_trainer, cached_results) ==
    [trainer |-> [the_trainer EXCEPT !.split_idx = manager.split_idx[1]],
     _cached_results |-> [stage \in DOMAIN cached_results |->
                             [cached_results[stage] EXCEPT !.split_idx = manager.split_idx]]]

\* BatchSplitIdxManager.__enter__: [trainer, _cached_results]
__enter__(manager, the_trainer, cached_results) ==
    [trainer |-> [the_trainer EXCEPT !.split_idx = manager.split_idx[1]],
     _cached_results |-> [cached_results EXCEPT ![manager.stage].split_idx = manager.split_idx]]

\* BatchSplitIdxManager.__exit__ leaving the split index of the stage as it is
__exit___keeps_index(manager, cached_results, exc_type) ==
    [_cached_results |-> cached_results, raised |-> exc_type]

\* BatchSplitIdxManager.__exit__: [_cached_results, raised]; it returns None, so the
\* exception of the body, if any, is raised again by the with statement
__exit__(manager, cached_results, exc_type) ==
    [_cached_results |-> [cached_results EXCEPT ![manager.stage].split_idx = <<None>>],
     raised |-> exc_type]

\* with self.split_idx_manager(stage_or_testing, split_idx): up to the first
\* statement of the body
EnterSplit(Flags, SplitIdxs) ==
    \E stage_or_testing \in Flags, split_idx \in SplitIdxs :
        LET r == _determine_stage(stage_or_testing)
            found == r.raised = "none" /\ r.stage \in DOMAIN _split_idx_manager
            managers == IF found
                        THEN [_split_idx_manager EXCEPT ![r.stage].split_idx = <<split_idx>>]
                        ELSE _split_idx_manager
            entered == __enter__(managers[r.stage], trainer, _cached_results)
        IN  /\ Len(with_stack) < MaxNesting
            /\ _current_stage' = IF r.raised = "none" THEN r.stage ELSE _current_stage
            /\ _split_idx_manager' = managers
            /\ trainer' = IF found THEN entered.trainer ELSE trainer
            /\ _cached_results' = IF found THEN entered._cached_results ELSE _cached_results
            /\ with_stack' = IF found THEN Append(with_stack, r.stage) ELSE with_stack
            /\ Called("__enter__",
                      [stage_or_testing |-> stage_or_testing, split_idx |-> split_idx],
                      <<>>,
                      IF r.raised # "none" THEN r.raised
                      ELSE IF found THEN "none" ELSE "KeyError")
            /\ UNCHANGED <<metric_vars, logger_calls, hook_results>>

\* the end of the body of the innermost with statement: it returned (exc_type is
\* "none") or raised exc_type
ExitSplit(Excs) ==
    \E exc_type \in Excs :
        /\ with_stack # <<>>
        /\ LET stage == with_stack[Len(with_stack)]
               r == __exit__(_split_idx_manager[stage], _cached_results, exc_type)
           IN  /\ _cached_results' = r._cached_results
               /\ Called("__exit__", [stage |-> stage, exc_type |-> exc_type], <<>>, r.raised)
        /\ with_stack' = SubSeq(with_stack, 1, Len(with_stack) - 1)
        /\ UNCHANGED <<metric_vars, logger_calls, _current_stage, _split_idx_manager, trainer,
                       hook_results>>

\* HookResults(current_hook_fx_name)
NewHookResults(HookNames) ==
    \E current_hook_fx_name \in HookNames :
        /\ hook_results' = HookResults(current_hook_fx_name)
        /\ Called("HookResults", [current_hook_fx_name |-> current_hook_fx_name], <<>>, "none")
        /\ UNCHANGED <<metric_vars, logger_calls, cache_vars, trainer, with_stack>>

\* hook_results.append(result, dataloader_idx), dataloader_idx None when it is left
\* out; arg.history holds the appends made since the object was constructed
HookResultsAppend(ResultsIn, DlIdxs) ==
    \E result \in ResultsIn, dataloader_idx \in DlIdxs :
        LET history == IF op = "append" THEN arg.history ELSE <<>>
        IN  /\ hook_results # <<>>
            /\ Len(history) < MaxAppends
            /\ hook_results' = append(hook_results, result, dataloader_idx, None)
            /\ Called("append",
                      [history |-> Append(history, [result |-> result,
                                                    dataloader_idx |-> dataloader_idx])],
                      <<>>, "none")
            /\ UNCHANGED <<metric_vars, logger_calls, cache_vars, trainer, with_stack>>

(***************************************************************************)
(* The state after LoggerConnector.__init__ (lines 129-138).               *)
(***************************************************************************)
\* EpochLoopResult.__init__; split_idx is the attribute BatchSplitIdxManager sets,
\* <<>> while it has never been set
EpochLoopResult(stage) ==
    [_stage |-> stage, _internals |-> EmptyDict, _dataloader_idx |-> None,
     _split_idx |-> None, split_idx |-> <<>>]

\* BatchSplitIdxManager.__init__; split_idx is set by split_idx_manager
BatchSplitIdxManager(stage) == [stage |-> stage, split_idx |-> <<>>]

\* the state after __init__ on a trainer whose fields are drawn from Trainers, with
\* callback_metrics as earlier operations left it, drawn from CallbackMetrics
InitWith(Trainers, CallbackMetrics) ==
    /\ callback_metrics \in CallbackMetrics
    /\ logged_metrics = EmptyDict
    /\ progress_bar_metrics = EmptyDict
    /\ eval_loop_results = <<>>
    /\ _current_stage = <<>>
    /\ _cached_results = [stage \in Range(__stages) |-> EpochLoopResult(stage)]
    /\ _split_idx_manager = [stage \in Range(StagesButFirst) |-> BatchSplitIdxManager(stage)]
    /\ trainer \in Trainers
    /\ logger_calls = <<>>
    /\ op = "__init__"
    /\ arg = <<>>
    /\ ret = <<>>
    /\ raised = "none"
    /\ prev_get = <<>>
    /\ with_stack = <<>>
    /\ hook_results = <<>>

\* the state after __init__ on a trainer whose fields are drawn from Trainers
InitOn(Trainers) == InitWith(Trainers, {EmptyDict})

\* trainers: is_global_zero, whether trainer.logger is not None, testing
TrainersOf(Ranks, Loggers, Testing) ==
    [is_global_zero : Ranks, logger : Loggers, testing : Testing, split_idx : {None}]

Init == InitOn(TrainersOf(BOOLEAN, BOOLEAN, BOOLEAN))

(***************************************************************************)
(* The inputs of the operations.                                           *)
(***************************************************************************)
\* the trainer fields log_metrics reads; Gpu holds the pairs <<on_gpu, log_gpu_memory>>
Envs(Gpu, Epochs, GlobalSteps) ==
    {[on_gpu |-> g[1], log_gpu_memory |-> g[2], current_epoch |-> e, global_step |-> n] :
        g \in Gpu, e \in Epochs, n \in GlobalSteps}

NoGpu == {<<FALSE, FALSE>>}

\* the environment of an operation that is not about the logging step
Env1 == Envs(NoGpu, {MaxEpoch}, {StepsPerEpoch * MaxEpoch + 1})

\* evaluation results: structured, legacy mapping
ER1 == Res("EvalResult", EmptyDict, EmptyDict, D1(K_val_loss, Tensor(1)), EmptyDict)
ER2 == Res("EvalResult", D1(K_a, Tensor(1)), EmptyDict, D1(K_debug_epoch, Scalar(0)),
           EmptyDict)
LD1 == Res("dict", D1(K_a, Scalar(2)), EmptyDict, D1(K_val_loss, Tensor(2)), EmptyDict)
\* step results of the evaluation loop, of dataloader 0 and of dataloader 1
SR1 == Res("EvalResult", D1(K_a, Tensor(1)), D1(K_b, Tensor(1)), EmptyDict,
           D1(K_acc_dl0, Tensor(1)))
SR2 == Res("EvalResult", D1(K_a, Tensor(2)), D1(K_b, Tensor(1)), EmptyDict,
           D1(K_acc_dl1, Tensor(2)))
\* training step results: structured with 'extra', structured without, legacy mapping
TR1 == [Res("Result", D1(K_a, Tensor(1)), D1(K_b, Tensor(2)), EmptyDict, EmptyDict)
            EXCEPT !.has_extra = TRUE, !.n_keys = 3]
TR2 == [Res("Result", D1(K_a, Tensor(2)), EmptyDict, EmptyDict, EmptyDict)
            EXCEPT !.n_keys = 2]
TD1 == Res("dict", D1(K_a, Scalar(1)), EmptyDict, D1(K_loss, Tensor(1)), EmptyDict)
NoneRes == Res("None", EmptyDict, EmptyDict, EmptyDict, EmptyDict)
\* what an overridden training_epoch_end returns: a Result, a plain dict
HR1 == Res("Result", D1(K_b, Tensor(1)), D1(K_a, Tensor(1)), EmptyDict, EmptyDict)
HD1 == Res("dict", D1(K_b, Scalar(2)), EmptyDict, D1(K_val_loss, Tensor(1)), EmptyDict)

EvalInputs ==
    {[using_eval_result |-> TRUE, items |-> <<>>],
     [using_eval_result |-> TRUE, items |-> <<ER1>>],
     [using_eval_result |-> TRUE, items |-> <<ER2>>],
     [using_eval_result |-> FALSE, items |-> <<LD1>>]}

StepMetricsInputs == {<<>>, << <<SR1>> >>, << <<SR1>>, <<SR2>> >>, << <<>>, <<SR2>> >>}

Cadences(Every, Flag) ==
    [log_every_n_steps : Every, should_stop : Flag, fast_dev_run : Flag]

\* checkpoint and early-stopping accumulators: num_values and mean()
Acc0 == [num_values |-> 0, mean |-> Tensor(0)]
Acc2 == [num_values |-> 2, mean |-> Tensor(1)]

EpochOutputs ==
    {<<>>, << <<>> >>, << << <<>> >> >>, << << <<TR1>> >> >>, << << <<TR2>> >> >>,
     << << <<TD1>> >> >>, << << <<TR1>>, <<TR1>> >>, << <<TR1>> >> >>}

\* the model: whether it overrides training_epoch_end, what the hook returns and
\* what it logged (model._results)
Models ==
    {[overridden |-> FALSE, hook_return |-> NoneRes, hook_logged |-> EmptyResult]}
    \cup [overridden : {TRUE}, hook_return : {NoneRes, HR1, HD1}, hook_logged : {HR1}]

\* the metrics cached_metrics("train") holds for after_on_batch_end
CachedMetrics ==
    {[epoch_log_metrics |-> EmptyDict, epoch_pbar_metrics |-> EmptyDict],
     [epoch_log_metrics |-> D1(K_a, Tensor(2)), epoch_pbar_metrics |-> EmptyDict]}

S_training_step == S_train \o <<"i", "n", "g", "_", "s", "t", "e", "p">>
S_validation_step == S_validation \o <<"_", "s", "t", "e", "p">>
S_test_step == S_test \o <<"_", "s", "t", "e", "p">>
S_on_epoch_end == <<"o", "n", "_", "e", "p", "o", "c", "h", "_", "e", "n", "d">>

FlagChars == {"0", "1", "t", "v"}

\* what callers hand to _determine_stage: trainer.testing, 0 or 1, or a string
Flags ==
    {PyBool(b) : b \in BOOLEAN} \cup {PyInt(n) : n \in 0..1}
    \cup {PyStr(x) : x \in {S_0, S_1, S_True, S_False, S_validation, S_test, S_train,
                            S_val, S_all}}
    \cup {PyStr(x) : x \in SeqsUpTo(FlagChars, MaxFlagLen)}

\* the strings the sequences of pieces spell
RECURSIVE Spelled(_)
Spelled(pieces) == IF pieces = <<>> THEN <<>> ELSE Head(pieces) \o Spelled(Tail(pieces))

\* hook names: up to MaxPieces of the stage names, parts of them and other words
HookNamePieces ==
    {S_train, S_validation, S_test, S_val, <<"_", "s", "t", "e", "p">>, <<"t", "e", "s">>}

HookNames == {Spelled(pieces) : pieces \in SeqsUpTo(HookNamePieces, MaxPieces)}

\* the mappings over the names Keys with the values Values
DictsOver(Keys, Values) == UNION {[D -> Values] : D \in SUBSET Keys}

\* what the callers hand to the operations in each of the systems below, by
\* system and by parameter
Inputs ==
    [all |->
        [Metrics |-> {D1(K_a, Tensor(1))},
         GradNorms |-> {EmptyDict},
         Steps |-> {None},
         Batches |-> {[batch_log_metrics |-> Opt(FALSE, D1(K_a, Tensor(2))),
                       grad_norm_dic |-> Opt(TRUE, EmptyDict)]},
         Cadences |-> Cadences({1}, {FALSE}),
         EpochOutputs |-> {<<>>, << << <<TR1>> >> >>},
         Accumulators |-> {<<Acc2, Acc0>>},
         Models |-> {[overridden |-> FALSE, hook_return |-> NoneRes,
                      hook_logged |-> EmptyResult]},
         Cached |-> {[epoch_log_metrics |-> EmptyDict, epoch_pbar_metrics |-> EmptyDict]},
         EvalResults |-> {[using_eval_result |-> TRUE, items |-> <<ER1>>]},
         EpochLogs |-> {EmptyResult},
         StepMetrics |-> {<< <<SR1>> >>, << <<SR1>>, <<SR2>> >>},
         Debugger |-> {FALSE},
         HookNames |-> {S_training_step},
         HookResults |-> {EmptyResult}],
     log |->
        [Metrics |-> {D1(K_a, Tensor(1)), D1(K_a, Scalar(2)),
                      D2(K_b, Tensor(2), K_step, Tensor(1)), D1(K_epoch, Scalar(5))},
         GradNorms |-> {EmptyDict, D1(K_b, Tensor(1))},
         Steps |-> {None, 4},
         Envs |-> Envs({<<FALSE, FALSE>>, <<TRUE, TRUE>>}, {MaxEpoch},
                       {StepsPerEpoch * MaxEpoch + 1})],
     train |->
        [Accumulators |-> {<<Acc0, Acc0>>, <<Acc2, Acc0>>, <<Acc2, Acc2>>}],
     step |->
        [Batches |-> {[batch_log_metrics |-> Opt(FALSE, D1(K_a, Tensor(1))),
                       grad_norm_dic |-> Opt(TRUE, EmptyDict)],
                      [batch_log_metrics |-> Opt(FALSE, D1(K_a, Tensor(2))),
                       grad_norm_dic |-> Opt(FALSE, D1(K_b, Tensor(1)))],
                      [batch_log_metrics |-> Opt(FALSE, EmptyDict),
                       grad_norm_dic |-> Opt(FALSE, EmptyDict)],
                      [batch_log_metrics |-> Opt(TRUE, EmptyDict),
                       grad_norm_dic |-> Opt(FALSE, D1(K_b, Tensor(1)))]},
         Cadences |-> Cadences({1, 10}, BOOLEAN),
         Envs |-> Envs(NoGpu, {MaxEpoch}, {0, 8, 9, 19}),
         TrainingStepOutputs |-> {TR1, TR2, TD1}],
     split |->
        [Flags |-> {PyStr(S_train), PyStr(S_validation), PyStr(S_test), PyStr(S_all),
                    PyBool(TRUE), PyBool(FALSE)},
         SplitIdxs |-> 0..1,
         Excs |-> {"none", "RuntimeError"}],
     hook |->
        [HookNames |-> {S_training_step},
         Results |-> {TR1, TR2},
         DlIdxs |-> {None, 0, 1}],
     legacy_eval |->
        [EvalResults |-> {[using_eval_result |-> FALSE, items |-> <<TensorRes(Tensor(1))>>],
                          [using_eval_result |-> FALSE, items |-> <<LD1>>],
                          [using_eval_result |-> FALSE,
                           items |-> <<TensorRes(Tensor(2)), LD1>>]},
         EpochLogs |-> {EmptyResult},
         StepMetrics |-> {<<>>, << <<SR1>> >>},
         Debugger |-> {FALSE}],
     cache |->
        [HookNames |-> {S_training_step, S_training_step \o <<"_", "e", "n", "d">>,
                        S_on_epoch_end},
         HookResults |-> {TR1, TR2},
         EvalResults |-> {[using_eval_result |-> TRUE, items |-> <<ER1>>]},
         EpochLogs |-> {EmptyResult},
         StepMetrics |-> {<< <<SR1>> >>},
         Sanity |-> {FALSE}]]

(***************************************************************************)
(* Specifications.                                                         *)
(***************************************************************************)
\* every operation of the coordinator
Next ==
    \/ LogMetrics(Inputs.all.Metrics, Inputs.all.GradNorms, Inputs.all.Steps, Env1)
    \/ OnStepEnd(Inputs.all.Batches, Inputs.all.Cadences, Env1)
    \/ OnTrainingEpochEnd(Inputs.all.EpochOutputs, Inputs.all.Accumulators,
                          Inputs.all.Models, Inputs.all.Cached, Env1)
    \/ OnEvaluationEpochEnd(Inputs.all.EvalResults, Inputs.all.EpochLogs,
                            Inputs.all.StepMetrics, BOOLEAN, Env1)
    \/ GetEvaluationEpochResults(Inputs.all.Debugger)
    \/ CaptureLogging(Inputs.all.HookNames, Inputs.all.HookResults)
    \/ Reset

Spec == Init /\ [][Next]_vars

\* the logging of metrics, on every kind of process
NextLog ==
    \/ LogMetrics(Inputs.log.Metrics, Inputs.log.GradNorms, Inputs.log.Steps,
                  Inputs.log.Envs)

SpecLog == InitOn(TrainersOf(BOOLEAN, BOOLEAN, {FALSE})) /\ [][NextLog]_vars

\* the evaluation epoch
NextEval ==
    \/ OnEvaluationEpochEnd(EvalInputs, Inputs.all.EpochLogs, StepMetricsInputs, BOOLEAN,
                            Env1)
    \/ GetEvaluationEpochResults(BOOLEAN)

SpecEval == InitOn(TrainersOf({TRUE}, {TRUE}, BOOLEAN)) /\ [][NextEval]_vars

\* the training epoch
NextTrain ==
    \/ OnTrainingEpochEnd(EpochOutputs, Inputs.train.Accumulators, Models, CachedMetrics,
                          Env1)

SpecTrain == InitOn(TrainersOf({TRUE}, {TRUE}, {FALSE})) /\ [][NextTrain]_vars

\* the resolution of stages
NextStage ==
    \/ DetermineStage(Flags)
    \/ SplitIdxManager(Flags, 0..1)

SpecStage == InitOn(TrainersOf({TRUE}, {TRUE}, {FALSE})) /\ [][NextStage]_vars

\* the snapshots of callback_metrics for the dataloaders
NextFork ==
    \/ AddToEvalLoopResults(0..1)

SpecFork ==
    /\ InitWith(TrainersOf({TRUE}, {TRUE}, {FALSE}),
                DictsOver({K_a, K_acc_dl0, K_acc_dl1, K_acc_dl0_top, K_acc_dl0_top_1},
                          {Scalar(1), Scalar(2)}))
    /\ [][NextFork]_vars

\* the training step, on the steps around a multiple of log_every_n_steps
NextStep ==
    \/ OnStepEnd(Inputs.step.Batches, Inputs.step.Cadences, Inputs.step.Envs)
    \/ LogTrainingStepMetrics(Inputs.step.TrainingStepOutputs)

SpecStep == InitOn(TrainersOf(BOOLEAN, {TRUE}, {FALSE})) /\ [][NextStep]_vars

\* the split regions
NextSplit ==
    \/ EnterSplit(Inputs.split.Flags, Inputs.split.SplitIdxs)
    \/ ExitSplit(Inputs.split.Excs)

SpecSplit == InitOn(TrainersOf({TRUE}, {TRUE}, {FALSE})) /\ [][NextSplit]_vars

\* one HookResults object
NextHook ==
    \/ NewHookResults(Inputs.hook.HookNames)
    \/ HookResultsAppend(Inputs.hook.Results, Inputs.hook.DlIdxs)

SpecHook == InitOn(TrainersOf({TRUE}, {TRUE}, {FALSE})) /\ [][NextHook]_vars

\* the stage of a hook name
NextHookName ==
    \/ DetermineStageFromHookName(HookNames)

SpecHookName == InitOn(TrainersOf({TRUE}, {TRUE}, {FALSE})) /\ [][NextHookName]_vars

\* the evaluation epoch of a model that returns legacy results: a bare tensor, a
\* mapping, or both
NextLegacyEval ==
    \/ OnEvaluationEpochEnd(Inputs.legacy_eval.EvalResults, Inputs.legacy_eval.EpochLogs,
                            Inputs.legacy_eval.StepMetrics, BOOLEAN, Env1)
    \/ GetEvaluationEpochResults(Inputs.legacy_eval.Debugger)

SpecLegacyEval == InitOn(TrainersOf({TRUE}, BOOLEAN, BOOLEAN)) /\ [][NextLegacyEval]_vars

\* the caches of the results of the hooks: two hooks of the training stage and one
\* of no stage, next to an evaluation epoch that fills the metric mappings
NextCache ==
    \/ CaptureLogging(Inputs.cache.HookNames, Inputs.cache.HookResults)
    \/ Reset
    \/ OnEvaluationEpochEnd(Inputs.cache.EvalResults, Inputs.cache.EpochLogs,
                            Inputs.cache.StepMetrics, Inputs.cache.Sanity, Env1)

SpecCache == InitOn(TrainersOf({TRUE}, {TRUE}, {FALSE})) /\ [][NextCache]_vars

(***************************************************************************)
(* Properties of the draining of the evaluation results.                   *)
(***************************************************************************)
\* the copy of callback_metrics that _get_evaluate_epoch_results appended in test
\* mode, as the last call left the state
AppendedCopy ==
    IF arg.debugger_enabled THEN Without(callback_metrics, K_debug_epoch)
    ELSE callback_metrics

\* C1, as the specification states it: when _get_evaluate_epoch_results is called
\* twice in a row and the first call returned a non-empty result, the second call
\* returns an empty result, in test mode as in non-test mode.
C1_SecondDrainIsEmpty ==
    (op = "_get_evaluate_epoch_results" /\ raised = "none" /\ prev_get # <<>>
        /\ prev_get[1] > 0)
    => ret = <<>>

\* C1, as the code has it: every call of _get_evaluate_epoch_results that returns
\* leaves eval_loop_results empty; in non-test mode it returns the list that was
\* accumulated, so the second of two calls in a row returns an empty list; in test
\* mode the second of two calls in a row returns a list of one mapping, the copy of
\* callback_metrics.
C1_DrainTwice ==
    (op = "_get_evaluate_epoch_results" /\ raised = "none")
    => /\ eval_loop_results = <<>>
       /\ ~trainer.testing => ret = arg.eval_loop_results
       /\ prev_get # <<>> =>
             IF trainer.testing THEN ret = <<AppendedCopy>> ELSE ret = <<>>

\* two test-mode calls in a row, the first after an epoch that accumulated results:
\* the second call returned the one mapping holding callback_metrics
C1_Witness ==
    /\ op = "_get_evaluate_epoch_results" /\ raised = "none"
    /\ trainer.testing
    /\ prev_get # <<>> /\ prev_get[1] > 0
    /\ callback_metrics # EmptyDict
    /\ ret = <<callback_metrics>>

\* the mappings the last test-mode call of _get_evaluate_epoch_results merged, in
\* the order of eval_loop_results
MergedMaps == Append(arg.eval_loop_results, AppendedCopy)

\* C2, as the specification states it: in test mode the one mapping returned holds
\* every key of the accumulated mappings and of the appended copy of
\* callback_metrics, each with the value of the LAST mapping that has the key.
C2_LaterMappingWins ==
    (op = "_get_evaluate_epoch_results" /\ raised = "none" /\ trainer.testing)
    => /\ Len(ret) = 1
       /\ DOMAIN ret[1] = UNION {DOMAIN MergedMaps[i] : i \in DOMAIN MergedMaps}
       /\ \A k \in DOMAIN ret[1] :
            \E i \in DOMAIN MergedMaps :
                /\ k \in DOMAIN MergedMaps[i]
                /\ \A j \in (i + 1)..Len(MergedMaps) : k \notin DOMAIN MergedMaps[j]
                /\ ret[1][k] = MergedMaps[i][k]

\* C2, as the code has it: in test mode the one mapping returned holds every key of
\* the accumulated mappings and of the appended copy of callback_metrics, each with
\* the value of the FIRST mapping of eval_loop_results that has the key.
C2_EarlierMappingWins ==
    (op = "_get_evaluate_epoch_results" /\ raised = "none" /\ trainer.testing)
    => /\ Len(ret) = 1
       /\ DOMAIN ret[1] = UNION {DOMAIN MergedMaps[i] : i \in DOMAIN MergedMaps}
       /\ \A k \in DOMAIN ret[1] :
            \E i \in DOMAIN MergedMaps :
                /\ k \in DOMAIN MergedMaps[i]
                /\ \A j \in 1..(i - 1) : k \notin DOMAIN MergedMaps[j]
                /\ ret[1][k] = MergedMaps[i][k]

\* a test-mode call merged two mappings that hold one key with different values, and
\* returned the value of the earlier one
C2_Witness ==
    /\ op = "_get_evaluate_epoch_results" /\ raised = "none" /\ trainer.testing
    /\ \E k \in DOMAIN ret[1] :
         \E i \in DOMAIN MergedMaps, j \in DOMAIN MergedMaps :
            /\ i < j
            /\ k \in DOMAIN MergedMaps[i] /\ k \in DOMAIN MergedMaps[j]
            /\ MergedMaps[i][k] # MergedMaps[j][k]
            /\ ret[1][k] = MergedMaps[i][k]

(***************************************************************************)
(* Properties of the training epoch end.                                   *)
(***************************************************************************)
\* C3: log_train_epoch_end_metrics called with an empty epoch output (an empty outer
\* list, or a first optimizer entry with no step outputs) does not raise and takes
\* the legacy path.
C3_EmptyEpochOutputIsLegacy ==
    (op = "log_train_epoch_end_metrics"
        /\ (arg.epoch_output = <<>> \/ arg.epoch_output[1] = <<>>))
    => raised = "none" /\ arg.path = "legacy"

(***************************************************************************)
(* Properties of the resolution of stages.                                 *)
(***************************************************************************)
\* the six flags the specification documents
DocumentedFlags == {S_0, S_1, S_True, S_False, S_validation, S_test}

\* C4: for each of the six documented flags _determine_stage returns the documented
\* stage ("0", "True", "test" give test; "1", "False", "validation" give
\* validation), and the stage returned is one of train, validation, test, for which
\* __init__ created a cache and a split-index manager.
C4_DocumentedStage ==
    (op = "_determine_stage" /\ str(arg.stage_or_testing) \in DocumentedFlags)
    => /\ raised = "none"
       /\ ret = <<IF str(arg.stage_or_testing) \in {S_0, S_True, S_test}
                  THEN S_test ELSE S_validation>>
       /\ ret[1] \in {S_train, S_validation, S_test}
       /\ ret[1] \in DOMAIN _cached_results
       /\ ret[1] \in DOMAIN _split_idx_manager

\* C5, as the specification states it: for every input whose string form is none of
\* the six documented flags, _determine_stage raises MisconfigurationException and
\* returns no stage.
C5_OthersRaise ==
    (op = "_determine_stage" /\ str(arg.stage_or_testing) \notin DocumentedFlags)
    => raised = "MisconfigurationException" /\ ret = <<>>

\* C5, as the code has it: for every input whose string form is none of the six
\* documented flags and is not "train", _determine_stage raises
\* MisconfigurationException and returns no stage; "train" is returned as it is.
C5_OthersButTrainRaise ==
    (op = "_determine_stage" /\ str(arg.stage_or_testing) \notin DocumentedFlags)
    => IF str(arg.stage_or_testing) = S_train
       THEN raised = "none" /\ ret = <<S_train>>
       ELSE raised = "MisconfigurationException" /\ ret = <<>>

\* _determine_stage was handed "val", the name it resolves "1" to, and raised
C5_Witness ==
    /\ op = "_determine_stage"
    /\ arg.stage_or_testing = PyStr(S_val)
    /\ raised = "MisconfigurationException"
    /\ ret = <<>>

(***************************************************************************)
(* Properties of the evaluation epoch end during the sanity check.         *)
(***************************************************************************)
\* C6, as the specification states it: a before_on_evaluation_epoch_end called while
\* trainer.running_sanity_check is set leaves logged_metrics, progress_bar_metrics,
\* callback_metrics and eval_loop_results as they were.
C6_SanityCheckIsNoOp ==
    [][(op' = "before_on_evaluation_epoch_end" /\ arg'.running_sanity_check)
       => UNCHANGED metric_vars]_vars

\* C6, as the code has it: a before_on_evaluation_epoch_end called while
\* trainer.running_sanity_check is set leaves logged_metrics, progress_bar_metrics
\* and eval_loop_results as they were; callback_metrics is left as it was when the
\* list of results starts with a legacy result, and otherwise receives the
\* callback_metrics of every structured result of the list, a later result
\* overwriting an earlier one.
C6_SanityCheckTracksCallbackMetrics ==
    [][(op' = "before_on_evaluation_epoch_end" /\ arg'.running_sanity_check)
       => /\ UNCHANGED <<logged_metrics, progress_bar_metrics, eval_loop_results>>
          /\ LET results == arg'.eval_results
                 tracked == IF arg'.using_eval_result THEN DOMAIN results ELSE {}
                 keys == UNION {DOMAIN results[i].callback_metrics : i \in tracked}
             IN  /\ DOMAIN callback_metrics' = (DOMAIN callback_metrics) \cup keys
                 /\ \A k \in (DOMAIN callback_metrics) \ keys :
                        callback_metrics'[k] = callback_metrics[k]
                 /\ \A k \in keys :
                        \E i \in tracked :
                            /\ k \in DOMAIN results[i].callback_metrics
                            /\ \A j \in tracked :
                                  j > i => k \notin DOMAIN results[j].callback_metrics
                            /\ callback_metrics'[k] = results[i].callback_metrics[k]]_vars

\* the first operation on the coordinator was a before_on_evaluation_epoch_end during
\* the sanity check with one structured result: its callback metric is tracked, and
\* nothing else is
C6_Witness ==
    /\ op = "before_on_evaluation_epoch_end" /\ arg.running_sanity_check
    /\ arg.eval_results = <<ER1>>
    /\ callback_metrics = ER1.callback_metrics
    /\ logged_metrics = EmptyDict /\ progress_bar_metrics = EmptyDict
    /\ eval_loop_results = <<>>

(***************************************************************************)
(* Properties of log_metrics.                                              *)
(***************************************************************************)
\* the scalar metrics of a log_metrics call, from what it was called with: the
\* metrics with the memory profile and the gradient norms merged in, every tensor
\* as its number; without "step" when it gave the step; with "epoch" when neither
\* the argument nor the metrics gave the step
ScalarMetricsOf(a) ==
    LET scalars == [k \in DOMAIN a.metrics_after |-> item(a.metrics_after[k])]
    IN  IF a.step = None /\ K_step \in DOMAIN scalars THEN Without(scalars, K_step)
        ELSE IF a.step = None
        THEN Update(scalars, D1(K_epoch, Scalar(a.env.current_epoch)))
        ELSE scalars

\* C7, as the specification states it: after every call of log_metrics, on every
\* rank and with or without a logger, logged_metrics holds the scalar metrics of the
\* call.
C7_RecordedUnconditionally ==
    op = "log_metrics"
    => \A k \in DOMAIN ScalarMetricsOf(arg) :
          k \in DOMAIN logged_metrics /\ logged_metrics[k] = ScalarMetricsOf(arg)[k]

\* C7, as the code has it: on every rank, a call of log_metrics merges the scalar
\* metrics of the call into logged_metrics when trainer.logger is not None, and
\* leaves logged_metrics as it was when trainer.logger is None.
C7_RecordedWhenLoggerConfigured ==
    [][op' = "log_metrics"
       => IF trainer.logger
          THEN logged_metrics' = Update(logged_metrics, ScalarMetricsOf(arg'))
          ELSE UNCHANGED logged_metrics]_vars

\* log_metrics on a rank that is not global zero, with a logger: the metrics of the
\* call are in logged_metrics
C7_Witness ==
    /\ op = "log_metrics"
    /\ ~trainer.is_global_zero /\ trainer.logger
    /\ arg.metrics = D1(K_a, Tensor(1))
    /\ K_a \in DOMAIN logged_metrics /\ logged_metrics[K_a] = Scalar(1)

\* C8: on a rank that is not global zero no operation calls the logger; on every
\* rank each agg_and_log_metrics call an operation makes is immediately followed by
\* a save call.
C8_BackendOnPrimaryRankOnly ==
    /\ ~trainer.is_global_zero => logger_calls = <<>>
    /\ \A i \in DOMAIN logger_calls :
          logger_calls[i].call = "agg_and_log_metrics"
          => i + 1 \in DOMAIN logger_calls /\ logger_calls[i + 1].call = "save"

\* an operation on global-zero rank called agg_and_log_metrics with scalar metrics
\* and then save
C8_Witness ==
    /\ trainer.is_global_zero
    /\ Len(logger_calls) = 2
    /\ logger_calls[1].call = "agg_and_log_metrics"
    /\ K_a \in DOMAIN logger_calls[1].metrics
    /\ logger_calls[1].metrics[K_a].kind = "scalar"
    /\ logger_calls[2] = SaveCall

\* C9, as the specification states it: after two log_metrics calls in a row,
\* logged_metrics holds every key of the metrics of both calls (gradient norms and
\* memory profile merged in, tensors as numbers), with the value of the later call
\* for a key of both.
C9_UnionOfBothCalls ==
    [][(op = "log_metrics" /\ op' = "log_metrics")
       => LET first == [k \in DOMAIN arg.metrics_after |-> item(arg.metrics_after[k])]
              second == [k \in DOMAIN arg'.metrics_after |-> item(arg'.metrics_after[k])]
          IN  \A k \in (DOMAIN first) \cup (DOMAIN second) :
                 /\ k \in DOMAIN logged_metrics'
                 /\ logged_metrics'[k] = IF k \in DOMAIN second THEN second[k]
                                         ELSE first[k]]_vars

\* C9, as the code has it: with trainer.logger not None, after two log_metrics calls
\* in a row logged_metrics holds every key of the scalar metrics of both calls (a
\* "step" key that gave the step is not among them, an "epoch" key is set to the
\* current epoch when no step was given), with the value of the later call for a key
\* of both.
C9_UnionOfBothCallsScalarMetrics ==
    [][(op = "log_metrics" /\ op' = "log_metrics" /\ trainer.logger)
       => LET first == ScalarMetricsOf(arg)
              second == ScalarMetricsOf(arg')
          IN  \A k \in (DOMAIN first) \cup (DOMAIN second) :
                 /\ k \in DOMAIN logged_metrics'
                 /\ logged_metrics'[k] = IF k \in DOMAIN second THEN second[k]
                                         ELSE first[k]]_vars

\* after a call given only "a", logged_metrics holds "a" with the value of that call
\* over an earlier value, and "b" of an earlier call
C9_Witness ==
    /\ op = "log_metrics" /\ trainer.logger
    /\ arg.metrics = D1(K_a, Scalar(2)) /\ arg.grad_norm_dic = EmptyDict
    /\ logged_metrics[K_a] = Scalar(2)
    /\ K_b \in DOMAIN logged_metrics /\ logged_metrics[K_b] = Scalar(2)

(***************************************************************************)
(* Properties of the three metric mappings.                                *)
(***************************************************************************)
\* C10: no operation of the coordinator removes a key from logged_metrics,
\* progress_bar_metrics or callback_metrics; the operations that merge nothing
\* (_get_evaluate_epoch_results, the caching of a hook's result, the reset of a
\* cache) leave the three mappings as they were.
C10_KeysOnlyGrow ==
    [][/\ DOMAIN logged_metrics \subseteq DOMAIN logged_metrics'
       /\ DOMAIN progress_bar_metrics \subseteq DOMAIN progress_bar_metrics'
       /\ DOMAIN callback_metrics \subseteq DOMAIN callback_metrics'
       /\ op' \in {"_get_evaluate_epoch_results", "capture_logging", "reset"}
          => UNCHANGED <<logged_metrics, progress_bar_metrics, callback_metrics>>]_vars

\* the evaluation of two dataloaders left in eval_loop_results a mapping without the
\* key of dataloader 0, deleted from the copy, while callback_metrics still has it
C10_Witness ==
    /\ op = "before_on_evaluation_epoch_end"
    /\ Len(eval_loop_results) = 2
    /\ K_acc_dl0 \notin DOMAIN eval_loop_results[2]
    /\ K_acc_dl1 \in DOMAIN eval_loop_results[2]
    /\ K_acc_dl0 \in DOMAIN callback_metrics

(***************************************************************************)
(* Properties of the evaluation results, continued.                        *)
(***************************************************************************)
\* C11: after every call of _get_evaluate_epoch_results, in test mode and in
\* non-test mode, eval_loop_results is empty, and in non-test mode the list returned
\* still holds the mappings that were accumulated.
C11_DrainedAfterEveryCall ==
    op = "_get_evaluate_epoch_results"
    => /\ eval_loop_results = <<>>
       /\ ~trainer.testing => ret = arg.eval_loop_results

\* a call of before_on_evaluation_epoch_end that finalized an epoch (outside the
\* sanity check, starting from an empty eval_loop_results) is followed at once by a
\* call of _get_evaluate_epoch_results in non-test mode
DrainsFinalizedEpoch ==
    /\ op = "before_on_evaluation_epoch_end" /\ raised = "none"
    /\ ~arg.running_sanity_check
    /\ arg.accumulated = 0
    /\ op' = "_get_evaluate_epoch_results" /\ raised' = "none"
    /\ ~trainer.testing

SuffixedWith(key, j) ==
    \E n \in 1..Len(key) :
        LET digits == SubSeq(key, Len(key) - n + 1, Len(key))
            before == SubSeq(key, 1, Len(key) - n)
        IN  /\ IsDigits(digits) /\ int(digits) = j
            /\ Len(before) >= Len(S_dataloader_idx)
            /\ SubSeq(before, Len(before) - Len(S_dataloader_idx) + 1, Len(before))
               = S_dataloader_idx

\* C13: add_to_eval_loop_results(k) appends a mapping that holds exactly the entries
\* of callback_metrics whose name does not end with "/dataloader_idx_<j>", or ends
\* with it for j = k, each with its value.
C13_SnapshotKeepsOwnSuffix ==
    op = "add_to_eval_loop_results"
    => /\ raised = "none"
       /\ eval_loop_results # <<>>
       /\ LET snapshot == eval_loop_results[Len(eval_loop_results)]
              k == arg.dl_idx
          IN  /\ DOMAIN snapshot =
                    {key \in DOMAIN callback_metrics :
                        (\A j \in 0..9 : ~SuffixedWith(key, j)) \/ SuffixedWith(key, k)}
              /\ \A key \in DOMAIN snapshot : snapshot[key] = callback_metrics[key]

(***************************************************************************)
(* Properties of the training step.                                        *)
(***************************************************************************)
\* C14: on a training step whose output carries at least one log metric,
\* log_train_step_metrics calls log_metrics exactly when (global_step + 1) is a
\* multiple of log_every_n_steps, or should_stop, or fast_dev_run; with
\* log_every_n_steps = 10 it does not at global_step = 8 and does at global_step = 9.
C14_ForwardsOnCadence ==
    (/\ op = "log_train_step_metrics"
     /\ ~arg.batch_output.batch_log_metrics.is_none
     /\ DOMAIN arg.batch_output.batch_log_metrics.d # {})
    => /\ Len(ret.log_metrics_calls) <= 1
       /\ ret.log_metrics_calls # <<>>
          <=> \/ (arg.env.global_step + 1) % arg.cadence.log_every_n_steps = 0
              \/ arg.cadence.should_stop
              \/ arg.cadence.fast_dev_run
       /\ (/\ arg.cadence.log_every_n_steps = 10
           /\ ~arg.cadence.should_stop /\ ~arg.cadence.fast_dev_run)
          => /\ arg.env.global_step = 8 => ret.log_metrics_calls = <<>>
             /\ arg.env.global_step = 9 => ret.log_metrics_calls # <<>>

C14_Witness ==
    /\ op = "log_train_step_metrics"
    /\ DOMAIN arg.batch_output.batch_log_metrics.d # {}
    /\ arg.cadence.log_every_n_steps = 10
    /\ ~arg.cadence.should_stop /\ ~arg.cadence.fast_dev_run
    /\ arg.env.global_step = 9
    /\ ret.log_metrics_calls # <<>>
    /\ K_a \in DOMAIN logged_metrics

(***************************************************************************)
(* Properties of the training epoch end.                                   *)
(***************************************************************************)
\* C15: on the 1.0 path of log_train_epoch_end_metrics, when the model overrides
\* training_epoch_end and the hook returns something other than None, the call
\* raises MisconfigurationException and leaves logged_metrics, progress_bar_metrics
\* and callback_metrics as they were.
C15_HookReturnRaisesBeforeTracking ==
    [][(/\ op' = "log_train_epoch_end_metrics"
        /\ arg'.path = "1.0"
        /\ arg'.model.overridden
        /\ arg'.model.hook_return.type # "None")
       => /\ raised' = "MisconfigurationException"
          /\ UNCHANGED <<logged_metrics, progress_bar_metrics, callback_metrics>>]_vars

C15_Witness ==
    /\ op = "log_train_epoch_end_metrics"
    /\ arg.path = "1.0"
    /\ arg.model.overridden
    /\ arg.model.hook_return.type = "Result"
    /\ raised = "MisconfigurationException"
    /\ K_a \in DOMAIN arg.epoch_output[1][1][1].epoch_log_metrics
    /\ K_b \in DOMAIN callback_metrics
    /\ K_a \notin DOMAIN callback_metrics

(***************************************************************************)
(* Properties of the split regions.                                        *)
(***************************************************************************)
\* C16: when a split region ends, whether its body returned or raised, the split
\* index of the stage's EpochLoopResult is None, and an exception raised in the body
\* is raised to the caller.
C16_ExitClearsSplitIndex ==
    op = "__exit__"
    => /\ _cached_results[arg.stage].split_idx = <<None>>
       /\ _cached_results[arg.stage]._split_idx = None
       /\ raised = arg.exc_type

C16_Witness ==
    /\ op = "__exit__"
    /\ arg.exc_type = "RuntimeError"
    /\ raised = "RuntimeError"
    /\ arg.stage = S_train
    /\ trainer.split_idx = 1
    /\ _cached_results[S_train].split_idx = <<None>>

(***************************************************************************)
(* Properties of HookResults.                                              *)
(***************************************************************************)
\* the results of the appends of history made under the dataloader indices Idxs, in
\* the order of the appends
RECURSIVE AppendedUnder(_, _)
AppendedUnder(history, Idxs) ==
    IF history = <<>> THEN <<>>
    ELSE (IF Head(history).dataloader_idx \in Idxs THEN <<Head(history).result>> ELSE <<>>)
         \o AppendedUnder(Tail(history), Idxs)

\* C17: after any appends to a HookResults, the sequence under dataloader index 0
\* holds the results appended with index 0 or with no index, in the order they were
\* appended, and the sequence under another index holds exactly the results appended
\* under that index: an append under one index leaves the other sequences alone.
C17_AppendRoundTrip ==
    op = "append"
    => /\ \A idx \in DOMAIN hook_results._internals :
             hook_results._internals[idx] =
                 AppendedUnder(arg.history, IF idx = 0 THEN {None, 0} ELSE {idx})
       /\ \A h \in Range(arg.history) :
             (IF h.dataloader_idx = None THEN 0 ELSE h.dataloader_idx)
                 \in DOMAIN hook_results._internals

C17_Witness ==
    /\ op = "append"
    /\ Len(arg.history) = 3
    /\ arg.history[1].dataloader_idx = None
    /\ arg.history[2].dataloader_idx = 1
    /\ arg.history[3].dataloader_idx = 0
    /\ hook_results._internals[0] = <<TR1, TR2>>
    /\ hook_results._internals[1] = <<TR2>>

(***************************************************************************)
(* Properties of the stage of a hook name.                                 *)
(***************************************************************************)
\* the names of train, validation and test that are substrings of hook_name
TokensIn(hook_name) == {t \in {S_train, S_validation, S_test} : IsSubstring(t, hook_name)}

\* C18: _determine_stage_from_hook_name returns train, validation or test for a hook
\* name that holds that stage name and neither of the other two, and all for a hook
\* name that holds none of the three.
C18_StageOfHookName ==
    op = "_determine_stage_from_hook_name"
    => /\ raised = "none"
       /\ \A t \in {S_train, S_validation, S_test} :
             TokensIn(arg.hook_name) = {t} => ret = <<t>>
       /\ TokensIn(arg.hook_name) = {} => ret = <<S_all>>

C18_Witness ==
    /\ op = "_determine_stage_from_hook_name"
    /\ arg.hook_name = S_validation_step
    /\ ret = <<S_validation>>

(***************************************************************************)
(* Properties of the legacy evaluation results.                            *)
(***************************************************************************)
\* what the legacy branch of _track_callback_metrics makes of a result before it
\* looks for 'val_loss'
FlatOf(eval_result) ==
    IF eval_result.type = "tensor" THEN D1(K_val_loss, eval_result.value)
    ELSE flatten_dict(eval_result)

\* C19: after before_on_evaluation_epoch_end on legacy results, callback_metrics
\* holds 'val_loss' for a result that is a bare tensor, and holds 'checkpoint_on' and
\* 'early_stop_on' equal to 'val_loss' for every result whose flattened form has a
\* 'val_loss' key (values compared for the last such result, which is the one the
\* updates leave).
C19_LegacyResultsTracked ==
    (/\ op = "before_on_evaluation_epoch_end" /\ raised = "none"
     /\ ~arg.using_eval_result)
    => \A i \in DOMAIN arg.eval_results :
          LET flat == FlatOf(arg.eval_results[i])
              last == \A j \in DOMAIN arg.eval_results :
                         j > i => K_val_loss \notin DOMAIN FlatOf(arg.eval_results[j])
          IN  K_val_loss \in DOMAIN flat
              => /\ {K_val_loss, K_checkpoint_on, K_early_stop_on} \subseteq DOMAIN callback_metrics
                 /\ last => /\ callback_metrics[K_val_loss] = flat[K_val_loss]
                            /\ callback_metrics[K_checkpoint_on] = flat[K_val_loss]
                            /\ callback_metrics[K_early_stop_on] = flat[K_val_loss]

(***************************************************************************)
(* Properties of the objects the model hands in.                           *)
(***************************************************************************)
\* C20: log_metrics, log_train_step_metrics and log_train_epoch_end_metrics leave
\* what they were handed as it was: the metrics mapping given to log_metrics, the
\* batch_log_metrics of the batch output and the 'extra' of every result of the
\* epoch output hold after the call the keys and values they held before it.
C20_InputsNotMutated ==
    /\ op = "log_metrics" => arg.metrics_after = arg.metrics
    /\ op = "log_train_step_metrics"
       => ret.batch_log_metrics = arg.batch_output.batch_log_metrics
    /\ op = "log_train_epoch_end_metrics"
       => \A o \in DOMAIN arg.epoch_output :
             \A t \in DOMAIN arg.epoch_output[o] :
                \A x \in DOMAIN arg.epoch_output[o][t] :
                   arg.epoch_output_after[o][t][x].extra = arg.epoch_output[o][t][x].extra

(***************************************************************************)
(* Properties of the accumulators of the training epoch.                   *)
(***************************************************************************)
\* C21: when log_train_epoch_end_metrics returns, callback_metrics['checkpoint_on']
\* is the mean of the checkpoint accumulator if it saw a value, and
\* callback_metrics['early_stop_on'] the mean of the early-stopping accumulator if it
\* saw a value, on the 1.0 path and on the legacy path (with an overridden
\* training_epoch_end that returns a Result or a dict, or with none) alike; an
\* accumulator that saw no value adds no such key.
C21_AccumulatorMeansTracked ==
    [][(/\ op' = "log_train_epoch_end_metrics" /\ raised' = "none"
        /\ (arg'.path = "legacy" /\ arg'.model.overridden)
           => arg'.model.hook_return.type \in {"Result", "dict"})
       => /\ arg'.checkpoint_accumulator.num_values > 0
             => /\ K_checkpoint_on \in DOMAIN callback_metrics'
                /\ callback_metrics'[K_checkpoint_on] = arg'.checkpoint_accumulator.mean
          /\ arg'.early_stopping_accumulator.num_values > 0
             => /\ K_early_stop_on \in DOMAIN callback_metrics'
                /\ callback_metrics'[K_early_stop_on] = arg'.early_stopping_accumulator.mean
          /\ (arg'.checkpoint_accumulator.num_values = 0
              /\ K_checkpoint_on \notin DOMAIN callback_metrics)
             => K_checkpoint_on \notin DOMAIN callback_metrics'
          /\ (arg'.early_stopping_accumulator.num_values = 0
              /\ K_early_stop_on \notin DOMAIN callback_metrics)
             => K_early_stop_on \notin DOMAIN callback_metrics']_vars

(***************************************************************************)
(* Properties of the progress bar metrics of a training step.              *)
(***************************************************************************)
\* C22: the progress bar metrics of a training step are merged into
\* progress_bar_metrics and into callback_metrics by log_training_step_metrics on
\* every step, whatever the logging cadence; only the call of log_metrics by
\* log_train_step_metrics depends on the cadence.
C22_StepPbarMetricsTracked ==
    /\ op = "log_training_step_metrics"
       => /\ raised = "none"
          /\ \A k \in DOMAIN arg.training_step_output.epoch_pbar_metrics :
                /\ k \in DOMAIN progress_bar_metrics
                /\ progress_bar_metrics[k] = item(arg.training_step_output.epoch_pbar_metrics[k])
                /\ k \in DOMAIN callback_metrics
    /\ (/\ op = "log_train_step_metrics"
        /\ (arg.env.global_step + 1) % arg.cadence.log_every_n_steps # 0
        /\ ~arg.cadence.should_stop /\ ~arg.cadence.fast_dev_run)
       => ret.log_metrics_calls = <<>>

(***************************************************************************)
(* Properties of the step of log_metrics.                                  *)
(***************************************************************************)
\* C23: log_metrics logs under the step it is given; when it is given none and the
\* metrics hold a 'step' key, under the value of that key, which is left out of what
\* is logged; otherwise under trainer.global_step, and only then with an 'epoch'
\* entry equal to trainer.current_epoch added to what is logged.
C23_StepResolution ==
    (op = "log_metrics" /\ logger_calls # <<>>)
    => LET call == logger_calls[1]
           scalars == metrics_to_scalars(arg.metrics_after)
       IN  /\ call.call = "agg_and_log_metrics"
           /\ arg.step # None
              => /\ call.step = arg.step
                 /\ call.metrics = scalars
           /\ (arg.step = None /\ K_step \in DOMAIN scalars)
              => /\ call.step = scalars[K_step].val
                 /\ call.metrics = Without(scalars, K_step)
           /\ (arg.step = None /\ K_step \notin DOMAIN scalars)
              => /\ call.step = arg.env.global_step
                 /\ call.metrics = Update(scalars, D1(K_epoch, Scalar(arg.env.current_epoch)))

C23_Witness ==
    /\ op = "log_metrics"
    /\ arg.step = None
    /\ K_step \in DOMAIN arg.metrics
    /\ logger_calls # <<>>
    /\ logger_calls[1].step = 1
    /\ DOMAIN logger_calls[1].metrics = {K_b}
    /\ DOMAIN logged_metrics = {K_b}

\* the stages whose EpochLoopResult holds a split index
StagesWithSplitIndex(cached_results) ==
    {stage \in DOMAIN cached_results :
        \/ cached_results[stage].split_idx \notin {<<>>, <<None>>}
        \/ cached_results[stage]._split_idx # None}

\* C24: the EpochLoopResult of a stage holds a split index only while the caller is
\* inside a split region of that stage, and entering or leaving a region of one stage
\* leaves the EpochLoopResult of every other stage as it was.
C24_SplitIndexIsStageLocal ==
    [][/\ StagesWithSplitIndex(_cached_results') \subseteq Range(with_stack')
       /\ op' = "__exit__"
          => \A stage \in DOMAIN _cached_results \ {arg'.stage} :
                _cached_results'[stage] = _cached_results[stage]
       /\ op' = "__enter__"
          => \A stage \in DOMAIN _cached_results :
                (with_stack' = with_stack \/ stage # with_stack'[Len(with_stack')])
                => _cached_results'[stage] = _cached_results[stage]]_vars

C24_Witness ==
    /\ op = "__exit__"
    /\ arg.stage = S_validation
    /\ with_stack = <<S_train>>
    /\ _cached_results[S_train].split_idx = <<1>>
    /\ _cached_results[S_validation].split_idx = <<None>>
    /\ StagesWithSplitIndex(_cached_results) = {S_train}

(***************************************************************************)
(* Properties of the caches of the results of the hooks.                   *)
(***************************************************************************)
\* the results cached_results holds for hook_name in the cache of stage, under
\* dataloader 0
CachedUnder(cached_results, stage, hook_name) ==
    IF hook_name \in DOMAIN cached_results[stage]._internals
    THEN cached_results[stage]._internals[hook_name]._internals[0]
    ELSE <<>>

\* C25: capture_logging appends the model's result to the sequence of the current
\* hook name in the cache of the stage _determine_stage_from_hook_name gives (all
\* when the name holds no stage name), making the HookResults of the hook when there
\* is none; the caches of the other stages, the other hooks of that stage and
\* callback_metrics, logged_metrics and progress_bar_metrics are left as they were.
C25_CaptureAppendsToOneSequence ==
    [][op' = "capture_logging"
       => LET hook_name == arg'.current_hook_fx_name
              stage == IF IsSubstring(S_train, hook_name) THEN S_train
                       ELSE IF IsSubstring(S_validation, hook_name) THEN S_validation
                       ELSE IF IsSubstring(S_test, hook_name) THEN S_test
                       ELSE S_all
              before == _cached_results[stage]._internals
              after == _cached_results'[stage]._internals
          IN  /\ DOMAIN after = DOMAIN before \cup {hook_name}
              /\ after[hook_name]._internals
                 = D1(0, Append(CachedUnder(_cached_results, stage, hook_name),
                                arg'.hook_result))
              /\ \A other \in DOMAIN before \ {hook_name} : after[other] = before[other]
              /\ \A other \in DOMAIN _cached_results \ {stage} :
                    _cached_results'[other] = _cached_results[other]
              /\ UNCHANGED <<callback_metrics, logged_metrics, progress_bar_metrics>>]_vars

C25_Witness ==
    /\ op = "capture_logging"
    /\ arg.current_hook_fx_name = S_training_step
    /\ arg.hook_result = TR2
    /\ CachedUnder(_cached_results, S_train, S_training_step) = <<TR1, TR2>>
    /\ Cardinality(DOMAIN _cached_results[S_train]._internals) = 2
    /\ CachedUnder(_cached_results, S_all, S_on_epoch_end) = <<TR1>>
    /\ K_a \in DOMAIN callback_metrics

\* C26: reset on the EpochLoopResult of one stage empties its hook caches and changes
\* nothing else: the EpochLoopResult of the other stages, logged_metrics,
\* progress_bar_metrics, callback_metrics and eval_loop_results are as before, and a
\* capture_logging for that stage right after the reset leaves a single sequence
\* that holds only the captured result.
C26_ResetClearsOneStage ==
    [][/\ op' = "reset"
          => /\ _cached_results'[arg'.stage]
                = [_cached_results[arg'.stage] EXCEPT !._internals = EmptyDict]
             /\ \A other \in DOMAIN _cached_results \ {arg'.stage} :
                   _cached_results'[other] = _cached_results[other]
             /\ UNCHANGED <<logged_metrics, progress_bar_metrics, callback_metrics,
                            eval_loop_results>>
       /\ (/\ op = "reset" /\ op' = "capture_logging"
           /\ IsSubstring(arg.stage, arg'.current_hook_fx_name))
          => /\ DOMAIN _cached_results'[arg.stage]._internals = {arg'.current_hook_fx_name}
             /\ _cached_results'[arg.stage]._internals[arg'.current_hook_fx_name]._internals
                = D1(0, <<arg'.hook_result>>)]_vars

C26_Witness ==
    /\ op = "reset"
    /\ arg.stage = S_train
    /\ _cached_results[S_train]._internals = EmptyDict
    /\ S_on_epoch_end \in DOMAIN _cached_results[S_all]._internals
    /\ K_a \in DOMAIN logged_metrics
    /\ K_b \in DOMAIN progress_bar_metrics
    /\ eval_loop_results # <<>>

====
